---------------------------- MODULE Spec2Model ----------------------------
(***************************************************************************)
(* Model of the file relevance / selection engine (app/file_selector.py)   *)
(* and of the spaced-repetition engine (app/spaced_repetition.py,          *)
(* app/quiz_scorer.py, app/state_manager.py).                              *)
(*                                                                         *)
(* Time.  A datetime is an integer number of ticks since an epoch; a day   *)
(* has TicksPerDay ticks, tick 0 of a day is midnight.  A timedelta is a   *)
(* difference of ticks.  A calendar date is a day number.                  *)
(***************************************************************************)
EXTENDS Integers, Sequences, FiniteSets, TLC

VARIABLES
    sc_file,      \* calculate_score: the ScannedFile metadata passed in
    sc_now,       \* calculate_score: the datetime `now`
    sc_out,       \* calculate_score: the ScoredFile returned (NotCalled before)
    dr_in,        \* is_discovery_round: [run_count, discovery_interval]
    dr_out,       \* is_discovery_round: the value returned
    nl_in,        \* calculate_next_level: [q1_correct, q2_evaluation, current_level, max_level]
    nl_out,       \* calculate_next_level: the value returned
    sel_in,       \* select_files: its arguments
    sel_out,      \* select_files: the SelectionResult returned
    quiz_history,     \* AppState.quiz_history: dict topic_key -> QuizHistoryEntry
    pending_quizzes,  \* AppState.pending_quizzes: list of PendingQuiz
    sr_config,        \* AppConfig.quiz.spaced_repetition
    clock,            \* the wall clock (datetime.now()), in ticks
    job_b_pc,         \* _run_job_b: "idle", in process_unanswered ("resolving",
                      \* "storing", "appending", "clearing"), or "selecting" once
                      \* it returned
    pu,               \* process_unanswered: its copy of the pending list, the quizzes
                      \* still to resolve, now
    sub_pc,           \* score_async of each viewer window: "idle", "scoring", "read",
                      \* "removed", "storing"
    sub_call,         \* score_async of each viewer window: its arguments and locals
    sub_out,          \* how the last scoring call that raised ended
    quiz_log,         \* the quizzes issued, each with the number of its scored and
                      \* of its automatic results
    briefings,        \* the number of quiz briefings generated
    iv_in,        \* get_interval_days / calculate_next_quiz_date: [level, intervals, now]
    iv_out,       \* the values the two functions returned
    uas_out,      \* update_after_scoring: its arguments, the store before, the dict returned
    due_out,      \* get_due_topics: its argument, the store before, the list returned
    th_pc,        \* Scheduler: where each thread is in its handler
    th_job,       \* Scheduler: the feature ("a", "b") whose wrapper the thread is in
    manual_rest,  \* run_manual: the features still to run
    _lock,        \* Scheduler._lock_a, _lock_b: the thread holding the lock, or "free"
    _running,     \* Scheduler._running_a, _running_b
    deferred,     \* the jobs job_a_deferred, job_b_deferred waiting for their run date
    fires_left,   \* cron firings and manual runs still to come
    _started,     \* Scheduler._started: the APScheduler is running
    run_count_a,  \* AppState.run_count_a
    run_count_b,  \* AppState.run_count_b
    job_pc,       \* _run_job_a / _run_job_b: "idle", or "selected" once select_files returned
    select_run_count, \* the run_count the feature's latest select_files call was given
    invocations,  \* how many times _run_job_a / _run_job_b were called
    rt_pc,        \* _call_with_retry: "idle", "try", "failed" or "done"
    attempt,      \* _call_with_retry: the loop variable
    last_error,   \* _call_with_retry: last_error
    rt_out,       \* _call_with_retry: how the call ended
    slept,        \* _call_with_retry: the delays it slept
    rt_attempts,  \* what each call of coro_factory did
    st_in,        \* the AppState given to _app_state_to_dict
    st_out,       \* the dict and the AppState parsed back from it
    rd_in,        \* the files on disk and the callback given to safe_read_with_fallback
    rd_out,       \* what safe_read_with_fallback did
    pick_history, \* AppState.random_pick_history
    pick_calls,   \* the picked_files lists given to update_random_pick_history, newest first
    run_cfg,      \* job runs: the scanned files, max_files and now
    run_sel,      \* job runs: the run of each feature that has called select_files
    run_log,      \* job runs: the select_files calls of the runs, in order
    wt_in,        \* the files and the time given to _calculate_random_weights
    wt_out        \* the weights it returned

scoreVars == <<sc_file, sc_now, sc_out>>
discVars == <<dr_in, dr_out>>
levelVars == <<nl_in, nl_out>>
selVars == <<sel_in, sel_out>>
quizThreadVars == <<job_b_pc, pu, sub_pc, sub_call, sub_out, quiz_log, briefings>>
quizVars == <<quiz_history, pending_quizzes, sr_config, clock, quizThreadVars>>
intervalVars == <<iv_in, iv_out>>
callVars == <<uas_out, due_out>>
schedVars == <<th_pc, th_job, manual_rest, _lock, _running, deferred, fires_left, _started>>
jobVars == <<run_count_a, run_count_b, job_pc, select_run_count, invocations>>
retryVars == <<rt_pc, attempt, last_error, rt_out, slept, rt_attempts>>
roundVars == <<st_in, st_out>>
readVars == <<rd_in, rd_out>>
runVars == <<run_cfg, run_sel, run_log>>
pickVars == <<pick_history, pick_calls, runVars>>
weightVars == <<wt_in, wt_out>>
extVars == <<roundVars, readVars, pickVars, weightVars>>
auxVars == <<intervalVars, callVars, schedVars, jobVars, retryVars, extVars>>

vars == <<scoreVars, discVars, levelVars, selVars, quizVars, auxVars>>

NotCalled == [called |-> FALSE]

---------------------------------------------------------------------------
(* Bounds of the model *)

TicksPerDay == 2          \* resolution of the time of day
NowDay == 40              \* the calendar day of `now`
MaxUnchecked == 2         \* largest unchecked_count drawn
DeadlineSpan == 9         \* deadlines are drawn NowDay-2 .. NowDay+DeadlineSpan

---------------------------------------------------------------------------
(* Scoring constants, file_selector.py *)

_SCORE_MODIFIED_TODAY == 50
_SCORE_MODIFIED_WEEK == 30
_SCORE_MODIFIED_MONTH == 10
_SCORE_PRIORITY_HIGH == 30
_SCORE_PRIORITY_MEDIUM == 15
_SCORE_DEADLINE_3DAYS == 25
_SCORE_DEADLINE_7DAYS == 15
_SCORE_HAS_UNCHECKED == 10

(* FileMetadata.modified_at is None when the mtime could not be read. *)
NoneTime == -1

(* FileMetadata.deadline is a string: "" when absent (NoDeadline), a text  *)
(* that strptime rejects (BadDeadline), or "YYYY-MM-DD" (its day number).  *)
NoDeadline == -1
BadDeadline == -2

(* datetime.timedelta(days=n) *)
timedelta(days) == days * TicksPerDay

(* timedelta.days: the whole days of a timedelta, rounded towards minus    *)
(* infinity (a delta of -12 hours has days = -1).                          *)
td_days(delta) == delta \div TicksPerDay

(* str.lower() on the priority strings of the model *)
lower(s) ==
    CASE s = "HIGH" -> "high"
      [] s = "High" -> "high"
      [] s = "MEDIUM" -> "medium"
      [] s = "Medium" -> "medium"
      [] s = "Low" -> "low"
      [] OTHER -> s

(* datetime.strptime(deadline, "%Y-%m-%d"): midnight of the deadline day,  *)
(* ValueError (ok = FALSE) when the text is not a date.                    *)
strptime(deadline) ==
    IF deadline >= 0
    THEN [ok |-> TRUE, dt |-> deadline * TicksPerDay]
    ELSE [ok |-> FALSE, dt |-> 0]

EmptyDict == [l \in {} |-> 0]

RECURSIVE SumValues(_)
SumValues(d) ==
    IF DOMAIN d = {} THEN 0
    ELSE LET l == CHOOSE x \in DOMAIN d : TRUE
         IN d[l] + SumValues([x \in DOMAIN d \ {l} |-> d[x]])

(* `score += points; breakdown[label] = points` on the running            *)
(* (score, breakdown) pair of calculate_score.                             *)
AddRule(acc, label, points) ==
    [score |-> acc.score + points,
     breakdown |-> (label :> points) @@ acc.breakdown]

(* ScoreModified with `if` in place of the first `elif`: a file modified   *)
(* within one day also collects the one-week tier.                         *)
ScoreModified_IfNotElif(acc, meta, now) ==
    IF meta.modified_at # NoneTime
    THEN LET delta == now - meta.modified_at
             a1 == IF delta <= timedelta(1)
                   THEN AddRule(acc, "modified_today", _SCORE_MODIFIED_TODAY)
                   ELSE acc
         IN IF delta <= timedelta(7)
            THEN AddRule(a1, "modified_week", _SCORE_MODIFIED_WEEK)
            ELSE IF delta <= timedelta(30)
            THEN AddRule(a1, "modified_month", _SCORE_MODIFIED_MONTH)
            ELSE a1
    ELSE acc

(* S1: the modification-time rule of calculate_score *)
ScoreModified(acc, meta, now) ==
    IF meta.modified_at # NoneTime
    THEN LET delta == now - meta.modified_at
         IN IF delta <= timedelta(1)
            THEN AddRule(acc, "modified_today", _SCORE_MODIFIED_TODAY)
            ELSE IF delta <= timedelta(7)
            THEN AddRule(acc, "modified_week", _SCORE_MODIFIED_WEEK)
            ELSE IF delta <= timedelta(30)
            THEN AddRule(acc, "modified_month", _SCORE_MODIFIED_MONTH)
            ELSE acc
    ELSE acc

(* S3: the priority rule of calculate_score *)
ScorePriority(acc, meta) ==
    LET priority == lower(meta.priority)
    IN IF priority = "high"
       THEN AddRule(acc, "priority_high", _SCORE_PRIORITY_HIGH)
       ELSE IF priority = "medium"
       THEN AddRule(acc, "priority_medium", _SCORE_PRIORITY_MEDIUM)
       ELSE acc

(* S4: the deadline rule of calculate_score; a ValueError of strptime is   *)
(* caught and only logged.                                                 *)
ScoreDeadline(acc, meta, now) ==
    IF meta.deadline # NoDeadline
    THEN LET parsed == strptime(meta.deadline)
         IN IF parsed.ok
            THEN LET days_until == td_days(parsed.dt - now)
                 IN IF 0 <= days_until /\ days_until <= 3
                    THEN AddRule(acc, "deadline_3days", _SCORE_DEADLINE_3DAYS)
                    ELSE IF 0 <= days_until /\ days_until <= 7
                    THEN AddRule(acc, "deadline_7days", _SCORE_DEADLINE_7DAYS)
                    ELSE acc
            ELSE acc
    ELSE acc

(* S6: the open-checkbox rule of calculate_score *)
ScoreUnchecked(acc, meta) ==
    IF meta.unchecked_count > 0
    THEN AddRule(acc, "has_unchecked", _SCORE_HAS_UNCHECKED)
    ELSE acc

(* calculate_score(file, now) -> ScoredFile *)
calculate_score(file, now) ==
    LET a0 == [score |-> 0, breakdown |-> EmptyDict]
        a1 == ScoreModified(a0, file, now)
        a3 == ScorePriority(a1, file)
        a4 == ScoreDeadline(a3, file, now)
        a6 == ScoreUnchecked(a4, file)
    IN [file |-> file, score |-> a6.score, score_breakdown |-> a6.breakdown]

---------------------------------------------------------------------------
(* Specification SpecScore: calculate_score applied to one file *)

Priorities == {"", "low", "Low", "high", "HIGH", "High", "medium", "Medium", "urgent"}

NowTicks == {NowDay * TicksPerDay + t : t \in 0 .. TicksPerDay - 1}

ModifiedTimes == {NoneTime} \cup (0 .. (NowDay + 1) * TicksPerDay)

Deadlines == {NoDeadline, BadDeadline} \cup ((NowDay - 2) .. (NowDay + DeadlineSpan))

FileMetadata ==
    [relative_path : {1},
     modified_at : ModifiedTimes,
     priority : Priorities,
     deadline : Deadlines,
     unchecked_count : 0 .. MaxUnchecked]

IdleScore == sc_file = 0 /\ sc_now = 0 /\ sc_out = NotCalled
IdleDisc == dr_in = 0 /\ dr_out = NotCalled
IdleLevel == nl_in = 0 /\ nl_out = NotCalled
IdleSel == sel_in = 0 /\ sel_out = NotCalled
(* The viewer windows: each has a scoring thread of its own. *)
Windows == {"w1", "w2"}
NoCall == [topic_key |-> "", briefing_file |-> 0]
NoPU == [pending |-> <<>>, todo |-> <<>>, now |-> 0]
IdleQuizThreads ==
    /\ job_b_pc = "idle" /\ pu = NoPU
    /\ sub_pc = [w \in Windows |-> "idle"] /\ sub_call = [w \in Windows |-> NoCall]
    /\ sub_out = NotCalled /\ quiz_log = {} /\ briefings = 0
IdleQuiz ==
    /\ quiz_history = <<>> /\ pending_quizzes = <<>> /\ sr_config = 0 /\ clock = 0
    /\ IdleQuizThreads
IdleInterval == iv_in = 0 /\ iv_out = NotCalled
IdleCalls == uas_out = NotCalled /\ due_out = NotCalled
IdleSched ==
    /\ th_pc = 0 /\ th_job = 0 /\ manual_rest = <<>> /\ _lock = 0 /\ _running = 0
    /\ deferred = 0 /\ fires_left = 0 /\ _started = 0
IdleJobs ==
    /\ run_count_a = 0 /\ run_count_b = 0 /\ job_pc = 0 /\ select_run_count = 0
    /\ invocations = 0
IdleRetry ==
    /\ rt_pc = "idle" /\ attempt = 0 /\ last_error = 0 /\ rt_out = NotCalled
    /\ slept = <<>> /\ rt_attempts = <<>>
IdleRound == st_in = 0 /\ st_out = NotCalled
IdleRead == rd_in = 0 /\ rd_out = NotCalled
IdleRuns == run_cfg = 0 /\ run_sel = 0 /\ run_log = <<>>
IdlePicks == pick_history = <<>> /\ pick_calls = <<>> /\ IdleRuns
IdleWeights == wt_in = 0 /\ wt_out = NotCalled
IdleExt == IdleRound /\ IdleRead /\ IdlePicks /\ IdleWeights
IdleAux == IdleInterval /\ IdleCalls /\ IdleSched /\ IdleJobs /\ IdleRetry /\ IdleExt

InitScore ==
    /\ sc_file \in FileMetadata
    /\ sc_now \in NowTicks
    /\ sc_out = NotCalled
    /\ IdleDisc /\ IdleLevel /\ IdleSel /\ IdleQuiz /\ IdleAux

CalculateScore ==
    /\ sc_out = NotCalled
    /\ sc_out' = [called |-> TRUE, ret |-> calculate_score(sc_file, sc_now)]
    /\ UNCHANGED <<sc_file, sc_now, discVars, levelVars, selVars, quizVars, auxVars>>

NextScore == CalculateScore

SpecScore == InitScore /\ [][NextScore]_vars


---------------------------------------------------------------------------
(* Claims about calculate_score, checked under SpecScore *)

ScoreRet == sc_out.ret

Labels(d) == DOMAIN d

(* C7: calculate_score returns the sum of at most one recency tier (+50 up *)
(* to 1 day, +30 up to 7 days, +10 up to 30 days, 0 beyond or unknown), at *)
(* most one priority tier (+30 high, +15 medium, case-insensitive), at     *)
(* most one deadline tier (+25 or +15) and +10 for open checkboxes; the    *)
(* score is within 0..115 and score_breakdown holds exactly the rules that *)
(* fired, its values summing to the score.                                 *)
C7_ScoreIsSumOfTiers ==
    sc_out.called =>
        LET m == sc_file
            b == ScoreRet.score_breakdown
            age == sc_now - m.modified_at
            recency == IF m.modified_at = NoneTime THEN 0
                       ELSE IF age <= 1 * TicksPerDay THEN 50
                       ELSE IF age <= 7 * TicksPerDay THEN 30
                       ELSE IF age <= 30 * TicksPerDay THEN 10
                       ELSE 0
            prio == IF m.priority \in {"high", "HIGH", "High"} THEN 30
                    ELSE IF m.priority \in {"medium", "MEDIUM", "Medium"} THEN 15
                    ELSE 0
            open == IF m.unchecked_count > 0 THEN 10 ELSE 0
            dl == ScoreRet.score - recency - prio - open
            Has(l, pts) == IF pts > 0 THEN l \in Labels(b) /\ b[l] = pts
                           ELSE l \notin Labels(b)
        IN /\ dl \in {0, 15, 25}
           /\ ScoreRet.score >= 0
           /\ ScoreRet.score <= 115
           /\ SumValues(b) = ScoreRet.score
           /\ Has("modified_today", IF recency = 50 THEN 50 ELSE 0)
           /\ Has("modified_week", IF recency = 30 THEN 30 ELSE 0)
           /\ Has("modified_month", IF recency = 10 THEN 10 ELSE 0)
           /\ Has("priority_high", IF prio = 30 THEN 30 ELSE 0)
           /\ Has("priority_medium", IF prio = 15 THEN 15 ELSE 0)
           /\ Has("deadline_3days", IF dl = 25 THEN 25 ELSE 0)
           /\ Has("deadline_7days", IF dl = 15 THEN 15 ELSE 0)
           /\ Has("has_unchecked", open)
           /\ Labels(b) \subseteq {"modified_today", "modified_week", "modified_month",
                                   "priority_high", "priority_medium",
                                   "deadline_3days", "deadline_7days", "has_unchecked"}

(* A file with every rule firing at its highest tier has been scored 115. *)
C7_Witness ==
    /\ sc_out.called
    /\ ScoreRet.score = 115
    /\ sc_file.priority = "HIGH"

(* C8: the deadline tier is decided by the calendar days from the date of  *)
(* now to the deadline date, whatever the time of day of now: 0..3 days    *)
(* ahead (today included) +25, 4..7 days ahead +15, past, further ahead or *)
(* unparsable 0.                                                           *)
C8_DeadlineByCalendarDays ==
    sc_out.called =>
        LET b == ScoreRet.score_breakdown
            pts == IF "deadline_3days" \in Labels(b) THEN b["deadline_3days"]
                   ELSE IF "deadline_7days" \in Labels(b) THEN b["deadline_7days"]
                   ELSE 0
            today == sc_now \div TicksPerDay
            ahead == sc_file.deadline - today
        IN IF sc_file.deadline < 0 THEN pts = 0
           ELSE IF 0 <= ahead /\ ahead <= 3 THEN pts = 25
           ELSE IF 4 <= ahead /\ ahead <= 7 THEN pts = 15
           ELSE pts = 0

---------------------------------------------------------------------------
(* is_discovery_round, file_selector.py *)

MaxRunCount == 12         \* run counts 0 .. MaxRunCount
MaxInterval == 6          \* discovery intervals -2 .. MaxInterval

(* is_discovery_round without the `run_count > 0` conjunct. *)
is_discovery_round_NoZeroCheck(run_count, discovery_interval) ==
    IF discovery_interval <= 0
    THEN FALSE
    ELSE run_count % discovery_interval = 0

(* is_discovery_round(run_count, discovery_interval) -> bool *)
is_discovery_round(run_count, discovery_interval) ==
    IF discovery_interval <= 0
    THEN FALSE
    ELSE run_count > 0 /\ run_count % discovery_interval = 0

InitDisc ==
    /\ dr_in \in [run_count : 0 .. MaxRunCount, discovery_interval : -2 .. MaxInterval]
    /\ dr_out = NotCalled
    /\ IdleScore /\ IdleLevel /\ IdleSel /\ IdleQuiz /\ IdleAux

IsDiscoveryRound ==
    /\ dr_out = NotCalled
    /\ dr_out' = [called |-> TRUE,
                  ret |-> is_discovery_round(dr_in.run_count, dr_in.discovery_interval)]
    /\ UNCHANGED <<dr_in, scoreVars, levelVars, selVars, quizVars, auxVars>>

NextDisc == IsDiscoveryRound

SpecDisc == InitDisc /\ [][NextDisc]_vars

(* C5: is_discovery_round is True exactly when discovery_interval > 0 and  *)
(* run_count is a positive multiple of discovery_interval; run_count 0 is  *)
(* never a discovery round and an interval <= 0 disables discovery.        *)
C5_DiscoveryRound ==
    dr_out.called =>
        LET rc == dr_in.run_count
            di == dr_in.discovery_interval
        IN /\ dr_out.ret = (di > 0 /\ \E k \in 1 .. rc : rc = k * di)
           /\ (rc = 0 => dr_out.ret = FALSE)
           /\ (di <= 0 => dr_out.ret = FALSE)

(* The second multiple of the interval has been judged a discovery round. *)
C5_Witness ==
    /\ dr_out.called
    /\ dr_in.run_count = 10
    /\ dr_in.discovery_interval = 5
    /\ dr_out.ret = TRUE

---------------------------------------------------------------------------
(* calculate_next_level, spaced_repetition.py *)

MaxMaxLevel == 6          \* max_level 0 .. MaxMaxLevel

(* calculate_next_level without the cap at max_level. *)
calculate_next_level_NoCap(q1_correct, q2_evaluation, current_level, max_level) ==
    IF ~q1_correct \/ q2_evaluation = "poor"
    THEN 0
    ELSE IF q1_correct /\ q2_evaluation = "good"
    THEN current_level + 1
    ELSE current_level

(* The smaller of two integers (Python's min on two arguments). *)
Min(a, b) == IF a <= b THEN a ELSE b

(* calculate_next_level(q1_correct, q2_evaluation, current_level, max_level) -> int *)
calculate_next_level(q1_correct, q2_evaluation, current_level, max_level) ==
    IF ~q1_correct \/ q2_evaluation = "poor"
    THEN 0
    ELSE IF q1_correct /\ q2_evaluation = "good"
    THEN Min(current_level + 1, max_level)
    ELSE current_level

(* The evaluations the scoring prompt asks for, and one it does not. *)
Q2Evaluations == {"good", "partial", "poor"}

Q2Answers == Q2Evaluations \cup {"excellent"}

InitLevel ==
    /\ nl_in \in {r \in [q1_correct : BOOLEAN, q2_evaluation : Q2Answers,
                         current_level : 0 .. MaxMaxLevel, max_level : 0 .. MaxMaxLevel] :
                    r.current_level <= r.max_level}
    /\ nl_out = NotCalled
    /\ IdleScore /\ IdleDisc /\ IdleSel /\ IdleQuiz /\ IdleAux

CalculateNextLevel ==
    /\ nl_out = NotCalled
    /\ nl_out' = [called |-> TRUE,
                  ret |-> calculate_next_level(nl_in.q1_correct, nl_in.q2_evaluation,
                                               nl_in.current_level, nl_in.max_level)]
    /\ UNCHANGED <<nl_in, scoreVars, discVars, selVars, quizVars, auxVars>>

NextLevel == CalculateNextLevel

SpecLevel == InitLevel /\ [][NextLevel]_vars

(* C9: for q2_evaluation in {good, partial, poor} and current_level in     *)
(* 0..max_level, calculate_next_level returns 0 when q1_correct is False   *)
(* or q2_evaluation is poor, current_level + 1 capped at max_level when    *)
(* q1_correct and good, and current_level when q1_correct and partial.     *)
C9_NextLevel ==
    (nl_out.called /\ nl_in.q2_evaluation \in Q2Evaluations) =>
        LET cur == nl_in.current_level
            up == IF cur + 1 > nl_in.max_level THEN nl_in.max_level ELSE cur + 1
        IN /\ (nl_in.q1_correct = FALSE => nl_out.ret = 0)
           /\ (nl_in.q2_evaluation = "poor" => nl_out.ret = 0)
           /\ (nl_in.q1_correct /\ nl_in.q2_evaluation = "good" => nl_out.ret = up)
           /\ (nl_in.q1_correct /\ nl_in.q2_evaluation = "partial" => nl_out.ret = cur)

(* A topic already at max_level has been answered correctly and well. *)
C9_Witness ==
    /\ nl_out.called
    /\ nl_in.q1_correct
    /\ nl_in.q2_evaluation = "good"
    /\ nl_in.current_level = nl_in.max_level
    /\ nl_in.max_level = 5
    /\ nl_out.ret = 5

---------------------------------------------------------------------------
(* select_files, file_selector.py *)

_DEFAULT_MAX_FILES == 20
_NORMAL_TOP_COUNT == 17
_NORMAL_RANDOM_COUNT == 3
_DISCOVERY_TOP_COUNT == 5
_DISCOVERY_RANDOM_COUNT == 15
_OLD_FILE_THRESHOLD_DAYS == 30
_OLD_FILE_WEIGHT_MULTIPLIER == 3

Max(a, b) == IF a >= b THEN a ELSE b

(* seq[:k] and seq[k:] for k >= 0 *)
Take(seq, k) == SubSeq(seq, 1, Min(k, Len(seq)))
Drop(seq, k) == SubSeq(seq, Min(k, Len(seq)) + 1, Len(seq))

RECURSIVE SeqSum(_)
SeqSum(seq) == IF seq = <<>> THEN 0 ELSE seq[1] + SeqSum(Tail(seq))

(* The relative paths of a list of files, as a set. *)
PathSet(files) == {files[i].relative_path : i \in 1 .. Len(files)}

(* _calculate_random_weights without the floor of 1.0 on recent files. *)
_calculate_random_weights_NoFloor(files, now) ==
    [i \in 1 .. Len(files) |->
        IF files[i].modified_at # NoneTime
        THEN LET days_since == td_days(now - files[i].modified_at)
             IN IF days_since >= _OLD_FILE_THRESHOLD_DAYS
                THEN days_since * _OLD_FILE_WEIGHT_MULTIPLIER
                ELSE days_since
        ELSE 15]

(* _calculate_random_weights(files, now) -> list[float]; every weight of   *)
(* the code is a whole number of days, or 15.0.                            *)
_calculate_random_weights(files, now) ==
    [i \in 1 .. Len(files) |->
        IF files[i].modified_at # NoneTime
        THEN LET days_since == td_days(now - files[i].modified_at)
             IN IF days_since >= _OLD_FILE_THRESHOLD_DAYS
                THEN days_since * _OLD_FILE_WEIGHT_MULTIPLIER
                ELSE Max(1, days_since)
        ELSE 15]

(* One step of a descending sort that puts sf before the entries it ties  *)
(* with (what sorting ascending and reversing the list gives).             *)
InsertByScore_TiesReversed(sorted, sf) ==
    LET k == Cardinality({i \in 1 .. Len(sorted) : sorted[i].score > sf.score})
    IN SubSeq(sorted, 1, k) \o <<sf>> \o SubSeq(sorted, k + 1, Len(sorted))

(* One step of the sort: sf goes after every entry scoring as much or more. *)
InsertByScore(sorted, sf) ==
    LET k == Cardinality({i \in 1 .. Len(sorted) : sorted[i].score >= sf.score})
    IN SubSeq(sorted, 1, k) \o <<sf>> \o SubSeq(sorted, k + 1, Len(sorted))

(* scored.sort(key=lambda sf: sf.score, reverse=True): descending, and     *)
(* stable (entries of equal score keep their order).                       *)
RECURSIVE SortByScoreDesc(_)
SortByScoreDesc(scored) ==
    IF scored = <<>> THEN <<>>
    ELSE InsertByScore(SortByScoreDesc(SubSeq(scored, 1, Len(scored) - 1)),
                       scored[Len(scored)])

(* scored = [calculate_score(f, now) for f in files]; scored.sort(...) *)
ScoreAndSort(files, now) ==
    SortByScoreDesc([i \in 1 .. Len(files) |-> calculate_score(files[i], now)])

(* The counts without the clamp of random_count to max_files - top_count. *)
SelectionCounts_NoRandomClamp(run_count, discovery_interval, max_files) ==
    LET discovery == is_discovery_round(run_count, discovery_interval)
        top0 == IF discovery THEN _DISCOVERY_TOP_COUNT ELSE _NORMAL_TOP_COUNT
        random0 == IF discovery THEN _DISCOVERY_RANDOM_COUNT ELSE _NORMAL_RANDOM_COUNT
    IN [discovery |-> discovery,
        top_count |-> Min(top0, max_files),
        random_count |-> random0]

(* The round and the (top_count, random_count) of select_files, clamped so *)
(* that their sum does not exceed max_files.                               *)
SelectionCounts(run_count, discovery_interval, max_files) ==
    LET discovery == is_discovery_round(run_count, discovery_interval)
        top0 == IF discovery THEN _DISCOVERY_TOP_COUNT ELSE _NORMAL_TOP_COUNT
        random0 == IF discovery THEN _DISCOVERY_RANDOM_COUNT ELSE _NORMAL_RANDOM_COUNT
        top_count == Min(top0, max_files)
    IN [discovery |-> discovery,
        top_count |-> top_count,
        random_count |-> Min(random0, max_files - top_count)]

FilesOf(scored) == [i \in 1 .. Len(scored) |-> scored[i].file]

(* The random pool with the history never excluded. *)
RandomCandidates_IgnoreHistory(scored, top_count, random_count, random_pick_history) ==
    FilesOf(Drop(scored, top_count))

(* random_candidates of select_files: the entries after the top ones whose *)
(* path is not in the history, extended by those in the history when fewer *)
(* than random_count are left.                                             *)
RandomCandidates(scored, top_count, random_count, random_pick_history) ==
    LET history_set == {random_pick_history[i] : i \in 1 .. Len(random_pick_history)}
        top_paths == PathSet(FilesOf(Take(scored, top_count)))
        rest == FilesOf(Drop(scored, top_count))
        NotInHistory(f) == f.relative_path \notin history_set
        InHistory(f) == f.relative_path \in history_set /\ f.relative_path \notin top_paths
        random_candidates == SelectSeq(rest, NotInHistory)
    IN IF Len(random_candidates) < random_count
       THEN random_candidates \o SelectSeq(rest, InHistory)
       ELSE random_candidates

(* The first occurrence of every path of a list, in order. *)
RECURSIVE UniqueByPath(_)
UniqueByPath(files) ==
    IF files = <<>> THEN <<>>
    ELSE LET front == UniqueByPath(SubSeq(files, 1, Len(files) - 1))
             last == files[Len(files)]
         IN IF last.relative_path \in PathSet(front) THEN front ELSE Append(front, last)

(* The picks of random.choices kept as drawn, repeats included. *)
RandomPicks_NoDedup(random_candidates, picks, actual_count, top_paths) ==
    [i \in 1 .. Len(picks) |-> random_candidates[picks[i]]]

(* The picks de-duplicated and not filled up again. *)
RandomPicks_NoRefill(random_candidates, picks, actual_count, top_paths) ==
    UniqueByPath([i \in 1 .. Len(picks) |-> random_candidates[picks[i]]])

(* The body of the `try` of select_files: the picks of random.choices      *)
(* (indices into random_candidates), de-duplicated by path, then filled up *)
(* to actual_count from the candidates not yet picked, in pool order.      *)
RandomPicks(random_candidates, picks, actual_count, top_paths) ==
    LET random_files == [i \in 1 .. Len(picks) |-> random_candidates[picks[i]]]
        unique_random == UniqueByPath(random_files)
        seen == PathSet(unique_random)
        NotSeen(c) == c.relative_path \notin seen /\ c.relative_path \notin top_paths
        remaining == SelectSeq(random_candidates, NotSeen)
    IN IF Len(unique_random) < actual_count
       THEN unique_random \o Take(remaining, actual_count - Len(unique_random))
       ELSE unique_random

SelectionResult(selected, top, random, discovery, total) ==
    [selected_files |-> selected, top_files |-> top, random_files |-> random,
     is_discovery |-> discovery, total_candidates |-> total]

(* The early return of select_files with is_discovery taken from the round. *)
SelectAll_ReportsRound(files, run_count, discovery_interval) ==
    SelectionResult(files, files, <<>>,
                    is_discovery_round(run_count, discovery_interval), Len(files))

(* The early return of select_files when len(files) <= max_files. *)
SelectAll(files, run_count, discovery_interval) ==
    SelectionResult(files, files, <<>>, FALSE, Len(files))

NoDraw == [raised |-> FALSE, picks |-> <<>>]

(* What the random module can return in select_files.  random.choices      *)
(* draws k indices with replacement among the candidates of positive       *)
(* weight and raises ValueError when the weights do not sum to more than   *)
(* zero; random.sample, the fallback, then draws k distinct indices.       *)
RandomDraws(files, run_count, discovery_interval, max_files, random_pick_history, now) ==
    IF files = <<>> \/ Len(files) <= max_files THEN {NoDraw}
    ELSE LET c == SelectionCounts(run_count, discovery_interval, max_files)
             pool == RandomCandidates(ScoreAndSort(files, now), c.top_count,
                                      c.random_count, random_pick_history)
             weights == _calculate_random_weights(pool, now)
             k == Min(c.random_count, Len(pool))
         IN IF pool = <<>> \/ c.random_count <= 0 THEN {NoDraw}
            ELSE IF SeqSum(weights) > 0
            THEN {[raised |-> FALSE, picks |-> d] :
                    d \in [1 .. k -> {i \in 1 .. Len(pool) : weights[i] > 0}]}
            ELSE {[raised |-> TRUE, picks |-> d] :
                    d \in {e \in [1 .. k -> 1 .. Len(pool)] :
                             \A i, j \in 1 .. k : i # j => e[i] # e[j]}}

(* select_files(files, run_count=, discovery_interval=, max_files=,        *)
(* random_pick_history=, now=) -> SelectionResult, with `draw` what the    *)
(* random module returned in this call.                                    *)
select_files(files, run_count, discovery_interval, max_files, random_pick_history, now, draw) ==
    IF files = <<>>
    THEN SelectionResult(<<>>, <<>>, <<>>, FALSE, 0)
    ELSE IF Len(files) <= max_files
    THEN SelectAll(files, run_count, discovery_interval)
    ELSE LET scored == ScoreAndSort(files, now)
             c == SelectionCounts(run_count, discovery_interval, max_files)
             top_files == FilesOf(Take(scored, c.top_count))
             top_paths == PathSet(top_files)
             random_candidates == RandomCandidates(scored, c.top_count, c.random_count,
                                                   random_pick_history)
             actual_count == Min(c.random_count, Len(random_candidates))
             random_files ==
                 IF random_candidates # <<>> /\ c.random_count > 0
                 THEN IF draw.raised
                      THEN [i \in 1 .. Len(draw.picks) |-> random_candidates[draw.picks[i]]]
                      ELSE RandomPicks(random_candidates, draw.picks, actual_count, top_paths)
                 ELSE <<>>
         IN SelectionResult(top_files \o random_files, top_files, random_files,
                            c.discovery, Len(files))

---------------------------------------------------------------------------
(* Specification SpecSelect: select_files applied to one vault *)

MaxSmall == 8             \* small vaults hold 0 .. MaxSmall files
PatternLen == 3           \* the profiles of a vault repeat with this period
MaxHist == 2              \* random_pick_history holds up to MaxHist paths
MaxOver == 2              \* large vaults hold up to _DEFAULT_MAX_FILES + MaxOver files

SelNow == NowDay * TicksPerDay + 1

(* Three kinds of note: modified today with high priority (score 80,       *)
(* weight 1), untouched for 35 days (score 0, weight 105), of unknown      *)
(* modification time with medium priority and an open task (score 25,      *)
(* weight 15).                                                             *)
ProfileFile(path, profile) ==
    CASE profile = 1 ->
           [relative_path |-> path, modified_at |-> SelNow - 1, priority |-> "High",
            deadline |-> NoDeadline, unchecked_count |-> 0]
      [] profile = 2 ->
           [relative_path |-> path, modified_at |-> SelNow - timedelta(35), priority |-> "",
            deadline |-> NoDeadline, unchecked_count |-> 0]
      [] OTHER ->
           [relative_path |-> path, modified_at |-> NoneTime, priority |-> "medium",
            deadline |-> BadDeadline, unchecked_count |-> 1]

(* The small vaults mix the first two kinds in every pattern of period     *)
(* PatternLen; the large vaults cycle through the three kinds.             *)
Patterns == [1 .. PatternLen -> 1 .. 2]

(* A vault of n notes with paths 1 .. n in scan order. *)
Vault(n, pattern) ==
    [i \in 1 .. n |-> ProfileFile(i, pattern[((i - 1) % PatternLen) + 1])]

LargeVault(n) == [i \in 1 .. n |-> ProfileFile(i, (i % 3) + 1)]

(* Histories of up to k of the paths 1 .. n. *)
Histories(n, k) ==
    {h \in UNION {[1 .. j -> 1 .. n] : j \in 0 .. k} :
        \A i \in 1 .. Len(h) - 1 : h[i] < h[i + 1]}

(* (run_count, discovery_interval): a normal round, a discovery round, and *)
(* discovery disabled.                                                     *)
Rounds == {<<1, 5>>, <<5, 5>>, <<5, 0>>}

SmallMaxFiles == {1} \cup ((MaxSmall - 2) .. (MaxSmall - 1))

SelectInput(files, round, max_files, history) ==
    [files |-> files, run_count |-> round[1], discovery_interval |-> round[2],
     max_files |-> max_files, random_pick_history |-> history, now |-> SelNow]

InitSelect ==
    /\ \/ \E n \in 0 .. MaxSmall, pat \in Patterns, m \in SmallMaxFiles, r \in Rounds :
            \E h \in Histories(n, MaxHist) :
                sel_in = SelectInput(Vault(n, pat), r, m, h)
       \/ \E n \in (_NORMAL_TOP_COUNT + 1) .. (_DEFAULT_MAX_FILES + MaxOver) :
            \E m \in _NORMAL_TOP_COUNT .. (n - 1), h \in Histories(n, 1) :
                sel_in = SelectInput(LargeVault(n), <<5, 0>>, m, h)
    /\ sel_out = NotCalled
    /\ IdleScore /\ IdleDisc /\ IdleLevel /\ IdleQuiz /\ IdleAux

SelectFiles ==
    /\ sel_out = NotCalled
    /\ \E draw \in RandomDraws(sel_in.files, sel_in.run_count, sel_in.discovery_interval,
                               sel_in.max_files, sel_in.random_pick_history, sel_in.now) :
          sel_out' = [called |-> TRUE,
                      ret |-> select_files(sel_in.files, sel_in.run_count,
                                           sel_in.discovery_interval, sel_in.max_files,
                                           sel_in.random_pick_history, sel_in.now, draw)]
    /\ UNCHANGED <<sel_in, scoreVars, discVars, levelVars, quizVars, auxVars>>

NextSelect == SelectFiles

SpecSelect == InitSelect /\ [][NextSelect]_vars

---------------------------------------------------------------------------
(* Claims about select_files, checked under SpecSelect *)

SelRet == sel_out.ret

(* The input position of a path (the paths of a vault are distinct). *)
InputIndex(path) ==
    CHOOSE i \in 1 .. Len(sel_in.files) : sel_in.files[i].relative_path = path

ScoreOf(f) == calculate_score(f, sel_in.now).score

(* The round and the clamped counts as the claims state them. *)
ClaimDiscovery ==
    /\ sel_in.discovery_interval > 0
    /\ sel_in.run_count > 0
    /\ \E k \in 1 .. sel_in.run_count : sel_in.run_count = k * sel_in.discovery_interval

ClaimTopCount ==
    LET t == IF ClaimDiscovery THEN 5 ELSE 17
    IN IF t <= sel_in.max_files THEN t ELSE sel_in.max_files

ClaimRandomCount ==
    LET r == IF ClaimDiscovery THEN 15 ELSE 3
        room == sel_in.max_files - ClaimTopCount
    IN IF r <= room THEN r ELSE room

Distinct(files) == Cardinality(PathSet(files)) = Len(files)

(* C1: for candidates of pairwise distinct paths and max_files >= 1,       *)
(* selected_files is top_files followed by random_files, no path is in     *)
(* both or twice in selected_files, and len(selected_files) <= max_files.  *)
C1_SelectionShape ==
    (sel_out.called /\ Distinct(sel_in.files) /\ sel_in.max_files >= 1) =>
        /\ SelRet.selected_files = SelRet.top_files \o SelRet.random_files
        /\ PathSet(SelRet.top_files) \cap PathSet(SelRet.random_files) = {}
        /\ Distinct(SelRet.selected_files)
        /\ Len(SelRet.selected_files) <= sel_in.max_files

(* A discovery round over a history has returned two random picks. *)
C1_Witness ==
    /\ sel_out.called
    /\ SelRet.is_discovery
    /\ Len(SelRet.random_files) = 2
    /\ Len(SelRet.top_files) = 5
    /\ sel_in.random_pick_history # <<>>

(* C2: with 0 < len(candidates) <= max_files every candidate is returned   *)
(* in input order as selected_files and as top_files, random_files is      *)
(* empty, total_candidates = len(candidates) and is_discovery is False,    *)
(* also on a discovery round; no candidates give an empty result with      *)
(* total_candidates = 0.                                                   *)
C2_SmallVault ==
    (sel_out.called /\ Len(sel_in.files) <= sel_in.max_files) =>
        /\ SelRet.selected_files = sel_in.files
        /\ SelRet.top_files = sel_in.files
        /\ SelRet.random_files = <<>>
        /\ SelRet.total_candidates = Len(sel_in.files)
        /\ SelRet.is_discovery = FALSE
        /\ (sel_in.files = <<>> =>
               SelRet = [selected_files |-> <<>>, top_files |-> <<>>, random_files |-> <<>>,
                         is_discovery |-> FALSE, total_candidates |-> 0])

(* A vault of exactly max_files notes has been selected on a run whose     *)
(* count is a multiple of the discovery interval.                          *)
C2_Witness ==
    /\ sel_out.called
    /\ Len(sel_in.files) = sel_in.max_files
    /\ sel_in.max_files > 1
    /\ ClaimDiscovery
    /\ SelRet.selected_files = sel_in.files

(* C3: with len(candidates) > max_files, top_files is the first top_count  *)
(* entries of the candidates sorted by descending score with ties in input *)
(* order: it is ordered that way, and every candidate left out scores no   *)
(* more than any top file and, when it ties with one, comes later in the   *)
(* input.                                                                  *)
C3_TopIsStableSortedPrefix ==
    (sel_out.called /\ Len(sel_in.files) > sel_in.max_files) =>
        LET top == SelRet.top_files
            Before(f, g) ==
                \/ ScoreOf(f) > ScoreOf(g)
                \/ /\ ScoreOf(f) = ScoreOf(g)
                   /\ InputIndex(f.relative_path) < InputIndex(g.relative_path)
        IN /\ Len(top) = ClaimTopCount
           /\ \A i \in 1 .. Len(top) : \E j \in 1 .. Len(sel_in.files) : sel_in.files[j] = top[i]
           /\ \A i, j \in 1 .. Len(top) : i < j => Before(top[i], top[j])
           /\ \A i \in 1 .. Len(top) : \A j \in 1 .. Len(sel_in.files) :
                 sel_in.files[j].relative_path \notin PathSet(top)
                     => /\ Before(top[i], sel_in.files[j])
                        /\ ScoreOf(top[i]) >= ScoreOf(sel_in.files[j])

(* A tie in score runs across the cut: a top file and a candidate left out *)
(* have the same score.                                                    *)
C3_Witness ==
    /\ sel_out.called
    /\ Len(sel_in.files) > sel_in.max_files
    /\ \E i \in 1 .. Len(SelRet.top_files) : \E j \in 1 .. Len(sel_in.files) :
          /\ sel_in.files[j].relative_path \notin PathSet(SelRet.top_files)
          /\ ScoreOf(sel_in.files[j]) = ScoreOf(SelRet.top_files[i])
    /\ \E i, j \in 1 .. Len(SelRet.top_files) :
          ScoreOf(SelRet.top_files[i]) > ScoreOf(SelRet.top_files[j])

(* C4: with len(candidates) > max_files the counts are (5, 15) on a        *)
(* discovery round and (17, 3) otherwise, clamped to top_count =           *)
(* min(top_count, max_files) and random_count = min(random_count,          *)
(* max_files - top_count); len(top_files) is the clamped top_count and     *)
(* len(random_files) is at most the clamped random_count.                  *)
C4_ClampedCounts ==
    (sel_out.called /\ Len(sel_in.files) > sel_in.max_files) =>
        /\ SelRet.is_discovery = ClaimDiscovery
        /\ Len(SelRet.top_files) = ClaimTopCount
        /\ Len(SelRet.random_files) <= ClaimRandomCount

(* A normal round with room for all 17 top files and 2 of the 3 random     *)
(* picks.                                                                  *)
C4_Witness ==
    /\ sel_out.called
    /\ ~SelRet.is_discovery
    /\ sel_in.max_files = 19
    /\ Len(SelRet.top_files) = 17
    /\ Len(SelRet.random_files) = 2

(* C6: the random picks are candidates outside top_files; none of them is  *)
(* in random_pick_history when at least random_count of the candidates     *)
(* outside top_files are outside the history.                              *)
C6_RandomPool ==
    (sel_out.called /\ Len(sel_in.files) > sel_in.max_files) =>
        LET history == {sel_in.random_pick_history[i] :
                          i \in 1 .. Len(sel_in.random_pick_history)}
            nonTop == PathSet(sel_in.files) \ PathSet(SelRet.top_files)
            picks == PathSet(SelRet.random_files)
        IN /\ picks \subseteq nonTop
           /\ Cardinality(nonTop \ history) >= ClaimRandomCount => picks \cap history = {}

(* Enough candidates outside the history: picks were made while a          *)
(* candidate outside top_files was in the history.                         *)
C6_Witness ==
    /\ sel_out.called
    /\ Len(SelRet.random_files) = 2
    /\ LET history == {sel_in.random_pick_history[i] :
                         i \in 1 .. Len(sel_in.random_pick_history)}
           nonTop == PathSet(sel_in.files) \ PathSet(SelRet.top_files)
       IN /\ nonTop \cap history # {}
          /\ Cardinality(nonTop \ history) >= 2

(* The fallback: a path of the history was picked because too few          *)
(* candidates were outside it.                                             *)
C6_FallbackReached ==
    /\ sel_out.called
    /\ \E i \in 1 .. Len(SelRet.random_files) : \E j \in 1 .. Len(sel_in.random_pick_history) :
          SelRet.random_files[i].relative_path = sel_in.random_pick_history[j]

---------------------------------------------------------------------------
(* Spaced repetition: spaced_repetition.py, state_manager.py,              *)
(* quiz_scorer.py.  A date string "YYYY-MM-DD" is its day number; the      *)
(* empty string of a date field is NoDate.  A dict is the list of its      *)
(* (key, value) pairs in insertion order.                                  *)

_DEFAULT_INTERVALS == <<1, 3, 7, 14, 30, 60>>

NoDate == -1

(* datetime.strftime("%Y-%m-%d"): the calendar day of a datetime *)
strftime_date(t) == t \div TicksPerDay

HasKey(d, k) == \E i \in 1 .. Len(d) : d[i].key = k

DictGet(d, k) == d[CHOOSE i \in 1 .. Len(d) : d[i].key = k].value

DictPut(d, k, v) ==
    IF HasKey(d, k)
    THEN [i \in 1 .. Len(d) |-> IF d[i].key = k THEN [key |-> k, value |-> v] ELSE d[i]]
    ELSE Append(d, [key |-> k, value |-> v])

(* QuizHistoryEntry(): the dataclass defaults *)
QuizHistoryEntry ==
    [last_quizzed_at |-> NoDate, interval_days |-> 1, level |-> 0,
     next_quiz_at |-> NoDate, results |-> <<>>]

(* get_interval_days indexing the table modulo its length. *)
get_interval_days_WrapsAround(level, intervals) ==
    LET idx == level % Len(intervals)
    IN intervals[idx + 1]

(* get_interval_days(level, intervals) -> int *)
get_interval_days(level, intervals) ==
    LET idx == Min(level, Len(intervals) - 1)
    IN intervals[idx + 1]

(* calculate_next_quiz_date adding one day whatever the level. *)
calculate_next_quiz_date_FromTomorrow(level, intervals, now) ==
    strftime_date(now + timedelta(1))

(* calculate_next_quiz_date(level, intervals, now=) -> str *)
calculate_next_quiz_date(level, intervals, now) ==
    LET idx == Min(level, Len(intervals) - 1)
        interval_days == intervals[idx + 1]
        next_date == now + timedelta(interval_days)
    IN strftime_date(next_date)

(* update_after_scoring reporting an unchanged level as an upgrade. *)
update_after_scoring_UpgradeOnSame(history, topic_key, q1_correct, q2_evaluation, config, now) ==
    LET current_level == IF HasKey(history, topic_key)
                         THEN DictGet(history, topic_key).level ELSE 0
        new_level == calculate_next_level(q1_correct, q2_evaluation, current_level,
                                          config.max_level)
    IN [new_level |-> new_level,
        new_interval_days |-> get_interval_days(new_level, config.intervals),
        next_quiz_at |-> calculate_next_quiz_date(new_level, config.intervals, now),
        level_change |-> IF new_level >= current_level THEN "upgrade"
                         ELSE "downgrade"]

(* update_after_scoring(state_manager, topic_key, q1_correct,              *)
(* q2_evaluation, sr_config, now=) -> dict; it reads quiz_history only.    *)
update_after_scoring(history, topic_key, q1_correct, q2_evaluation, config, now) ==
    LET current_level == IF HasKey(history, topic_key)
                         THEN DictGet(history, topic_key).level ELSE 0
        new_level == calculate_next_level(q1_correct, q2_evaluation, current_level,
                                          config.max_level)
    IN [new_level |-> new_level,
        new_interval_days |-> get_interval_days(new_level, config.intervals),
        next_quiz_at |-> calculate_next_quiz_date(new_level, config.intervals, now),
        level_change |-> IF new_level > current_level THEN "upgrade"
                         ELSE IF new_level < current_level THEN "downgrade"
                         ELSE "same"]

(* update_quiz_history leaving interval_days as it was. *)
update_quiz_history_KeepsInterval(history, topic_key, result, new_level, new_interval_days, next_quiz_at) ==
    LET h1 == IF ~HasKey(history, topic_key)
              THEN DictPut(history, topic_key, QuizHistoryEntry)
              ELSE history
        entry == DictGet(h1, topic_key)
    IN DictPut(h1, topic_key,
               [last_quizzed_at |-> result.date,
                interval_days |-> entry.interval_days,
                level |-> new_level,
                next_quiz_at |-> next_quiz_at,
                results |-> Append(entry.results, result)])

(* StateManager.update_quiz_history: the quiz_history after the call *)
update_quiz_history(history, topic_key, result, new_level, new_interval_days, next_quiz_at) ==
    LET h1 == IF ~HasKey(history, topic_key)
              THEN DictPut(history, topic_key, QuizHistoryEntry)
              ELSE history
        entry == DictGet(h1, topic_key)
    IN DictPut(h1, topic_key,
               [last_quizzed_at |-> result.date,
                interval_days |-> new_interval_days,
                level |-> new_level,
                next_quiz_at |-> next_quiz_at,
                results |-> Append(entry.results, result)])

(* StateManager.remove_pending_quiz: the first pending quiz of the topic   *)
(* is popped; `removed` is empty when there is none (None).                *)
remove_pending_quiz(pending, topic_key) ==
    IF \E i \in 1 .. Len(pending) : pending[i].topic_key = topic_key
    THEN LET i == CHOOSE j \in 1 .. Len(pending) :
                    /\ pending[j].topic_key = topic_key
                    /\ \A l \in 1 .. j - 1 : pending[l].topic_key # topic_key
         IN [removed |-> <<pending[i]>>,
             pending |-> SubSeq(pending, 1, i - 1) \o SubSeq(pending, i + 1, Len(pending))]
    ELSE [removed |-> <<>>, pending |-> pending]

(* One iteration of remove_pending_quiz's loop over the list as it is now: *)
(* past the end the call returns None; the quiz at index i is popped and   *)
(* returned when it is of the topic; else the loop goes on to index i + 1. *)
(* Indexes count from 1.                                                   *)
remove_pending_quiz_next(pending, topic_key, i) ==
    IF i > Len(pending)
    THEN [returned |-> TRUE, removed |-> <<>>, pending |-> pending, i |-> i]
    ELSE IF pending[i].topic_key = topic_key
         THEN [returned |-> TRUE, removed |-> <<pending[i]>>,
               pending |-> SubSeq(pending, 1, i - 1) \o SubSeq(pending, i + 1, Len(pending)),
               i |-> i]
         ELSE [returned |-> FALSE, removed |-> <<>>, pending |-> pending, i |-> i + 1]

(* update_quiz_history from the store of the new QuizHistoryEntry() on,    *)
(* for a call that found no entry of the topic: the new entry takes the    *)
(* place of whatever entry the topic has by now.                           *)
update_quiz_history_store(history, topic_key, result, new_level, new_interval_days, next_quiz_at) ==
    DictPut(history, topic_key,
            [last_quizzed_at |-> result.date,
             interval_days |-> new_interval_days,
             level |-> new_level,
             next_quiz_at |-> next_quiz_at,
             results |-> <<result>>])

(* The pending quizzes in the order process_unanswered visits them: by     *)
(* briefing file in order of first appearance, list order within a file.   *)
RECURSIVE GroupByFile(_)
GroupByFile(pending) ==
    IF pending = <<>> THEN <<>>
    ELSE LET SameFile(pq) == pq.briefing_file = pending[1].briefing_file
             OtherFile(pq) == pq.briefing_file # pending[1].briefing_file
         IN SelectSeq(pending, SameFile) \o GroupByFile(SelectSeq(pending, OtherFile))

(* Step 8 of _run_job_b: one add_pending_quiz per extracted topic key. *)
AddPendingQuizzes(pending, briefing_file, topic_keys, now) ==
    pending \o [i \in 1 .. Len(topic_keys) |->
                  [briefing_file |-> briefing_file,
                   topic_key |-> topic_keys[i].topic_key,
                   pattern |-> topic_keys[i].pattern,
                   created_at |-> now]]

---------------------------------------------------------------------------
(* Specification SpecQuiz: the scoring threads of the viewer windows and   *)
(* the job B runs on the one StateManager they share (main.py:751), which  *)
(* has no lock.  The interpreter lets another thread run when a function   *)
(* is called or returns and at the end of a loop's iteration, so a step of *)
(* a thread is what it does to the shared state between two such points:   *)
(* the read of a topic's level, one iteration of remove_pending_quiz's     *)
(* loop, update_quiz_history's test for the topic's entry (followed by the *)
(* constructor call when there is none) and its writes of the entry; also  *)
(* one wait for the LLM's reply and one write of a briefing file.  A       *)
(* briefing file is the number of its run;                                 *)
(* quiz_log holds, for each quiz issued (briefing_file, topic_key), how    *)
(* many scored and how many automatic results it was given.                *)

MaxEvents == 3            \* results recorded over all topics
MaxCfgLevel == 2          \* max_level 0 .. MaxCfgLevel
MaxBriefings == 2         \* quiz briefings generated

Topics == {"a.md#intro", "b.md#intro"}

Configs ==
    [max_level : 0 .. MaxCfgLevel, intervals : {_DEFAULT_INTERVALS, <<1, 3>>}]

(* The topic keys extract_topic_keys finds in a generated briefing: one    *)
(* quiz, two quizzes on different topics, the same topic twice.            *)
TopicKeyLists ==
    {<<[topic_key |-> "a.md#intro", pattern |-> "learning"]>>,
     <<[topic_key |-> "a.md#intro", pattern |-> "review"],
       [topic_key |-> "b.md#intro", pattern |-> "learning"]>>,
     <<[topic_key |-> "b.md#intro", pattern |-> "review"],
       [topic_key |-> "b.md#intro", pattern |-> "review"]>>}

(* The scoring call's answers: one that raises the level, one that keeps   *)
(* it, two that reset it.                                                  *)
ScoringResults ==
    {[q1_correct |-> TRUE, q2_evaluation |-> "good"],
     [q1_correct |-> TRUE, q2_evaluation |-> "partial"],
     [q1_correct |-> FALSE, q2_evaluation |-> "good"],
     [q1_correct |-> FALSE, q2_evaluation |-> "poor"]}

(* What the scoring request comes to: _call_with_retry raises the last     *)
(* error, times out after its retries, or the reply is text without JSON,  *)
(* or a JSON object.                                                       *)
ScoringReplies ==
    [kind : {"raises", "timeout", "text"}] \cup [kind : {"json"}, value : ScoringResults]

(* CopilotClientWrapper.score_quiz *)
score_quiz(reply) ==
    CASE reply.kind = "json" -> [raised |-> FALSE, error |-> "", ret |-> reply.value]
      [] reply.kind = "text" -> [raised |-> TRUE, error |-> "ValueError"]
      [] reply.kind = "timeout" -> [raised |-> TRUE, error |-> "TimeoutError"]
      [] OTHER -> [raised |-> TRUE, error |-> "Exception"]

RECURSIVE TotalResults(_)
TotalResults(history) ==
    IF history = <<>> THEN 0
    ELSE Len(history[1].value.results) + TotalResults(Tail(history))

(* The configurations of the quiz specifications: every max_level under   *)
(* the default table, the largest under the short one.                     *)
QuizConfigs ==
    {c \in Configs : c.intervals = _DEFAULT_INTERVALS \/ c.max_level = MaxCfgLevel}

QuizState == [quiz_history |-> quiz_history, pending_quizzes |-> pending_quizzes]

(* quiz_log after the quizzes were issued, and after a quiz was given a    *)
(* result. *)
LogIssued(log, quizzes) ==
    log \cup {[briefing_file |-> quizzes[i].briefing_file,
               topic_key |-> quizzes[i].topic_key, scored |-> 0, auto |-> 0] :
                 i \in 1 .. Len(quizzes)}

LogResult(log, quiz, event) ==
    {IF e.briefing_file = quiz.briefing_file /\ e.topic_key = quiz.topic_key
     THEN IF event = "scored" THEN [e EXCEPT !.scored = @ + 1]
                              ELSE [e EXCEPT !.auto = @ + 1]
     ELSE e : e \in log}

(* The quizzes in the text of the briefings written so far: the viewer     *)
(* takes the topics it scores from the briefing it shows.                  *)
IssuedQuizzes ==
    {[briefing_file |-> e.briefing_file, topic_key |-> e.topic_key] : e \in quiz_log}

(* The results recorded so far by the calls that returned. *)
RECURSIVE ResultsLogged(_)
ResultsLogged(log) ==
    IF log = {} THEN 0
    ELSE LET e == CHOOSE x \in log : TRUE
         IN e.scored + e.auto + ResultsLogged(log \ {e})

(* The results still to be recorded by the calls under way. *)
ResultsUnderWay ==
    Cardinality({w \in Windows : sub_pc[w] # "idle"}) + Len(pu.todo)

(* The bound on the results of a behaviour: another answer may be          *)
(* submitted, another job B run may start.                                 *)
MaySubmit(max_events) ==
    ResultsLogged(quiz_log) + ResultsUnderWay < max_events

MayRun(max_events) ==
    ResultsLogged(quiz_log) + ResultsUnderWay + Len(pending_quizzes) <= max_events

InitQuiz ==
    /\ quiz_history = <<>>
    /\ pending_quizzes = <<>>
    /\ sr_config \in QuizConfigs
    /\ clock = NowDay * TicksPerDay
    /\ IdleQuizThreads
    /\ IdleScore /\ IdleDisc /\ IdleLevel /\ IdleSel /\ IdleAux

QuizOthers == <<sr_config, scoreVars, discVars, levelVars, selVars, auxVars>>

(* _run_scoring of a viewer window: the user submits the answers to a quiz *)
(* of the briefing shown, pending or not; score_async starts and awaits    *)
(* the reply of _score_topic.                                              *)
SubmitAnswer(w, quiz) ==
    /\ sub_pc[w] = "idle"
    /\ quiz \in IssuedQuizzes
    /\ sub_call' = [sub_call EXCEPT ![w] = quiz]
    /\ sub_pc' = [sub_pc EXCEPT ![w] = "scoring"]
    /\ UNCHANGED <<quiz_history, pending_quizzes, clock, job_b_pc, pu, sub_out, quiz_log,
                   briefings, QuizOthers>>

(* A variant that takes the quiz off the pending list before it raises.   *)
ScoreTopicRaises_RemovesPending(w, reply) ==
    /\ sub_pc[w] = "scoring"
    /\ score_quiz(reply).raised
    /\ pending_quizzes' = remove_pending_quiz(pending_quizzes, sub_call[w].topic_key).pending
    /\ sub_out' = [called |-> TRUE, reply |-> reply.kind,
                   error |-> score_quiz(reply).error]
    /\ sub_call' = [sub_call EXCEPT ![w] = NoCall]
    /\ sub_pc' = [sub_pc EXCEPT ![w] = "idle"]
    /\ UNCHANGED <<quiz_history, clock, job_b_pc, pu, quiz_log, briefings,
                   QuizOthers>>

(* score / score_async: the exception of _score_topic leaves the function  *)
(* at once.                                                                *)
ScoreTopicRaises(w, reply) ==
    /\ sub_pc[w] = "scoring"
    /\ score_quiz(reply).raised
    /\ sub_out' = [called |-> TRUE, reply |-> reply.kind,
                   error |-> score_quiz(reply).error]
    /\ sub_call' = [sub_call EXCEPT ![w] = NoCall]
    /\ sub_pc' = [sub_pc EXCEPT ![w] = "idle"]
    /\ UNCHANGED <<quiz_history, pending_quizzes, clock, job_b_pc, pu, quiz_log, briefings,
                   QuizOthers>>

(* score / score_async once _score_topic has returned: now is taken and    *)
(* update_after_scoring reads the topic's level.                           *)
UpdateAfterScoringCall(w, reply) ==
    /\ sub_pc[w] = "scoring"
    /\ ~score_quiz(reply).raised
    /\ LET scoring_result == score_quiz(reply).ret
           now == clock
       IN sub_call' = [sub_call EXCEPT ![w] =
              [topic_key |-> sub_call[w].topic_key,
               briefing_file |-> sub_call[w].briefing_file,
               reply |-> reply.kind,
               q1_correct |-> scoring_result.q1_correct,
               q2_evaluation |-> scoring_result.q2_evaluation,
               now |-> now,
               sr_update |-> update_after_scoring(quiz_history, sub_call[w].topic_key,
                                                  scoring_result.q1_correct,
                                                  scoring_result.q2_evaluation,
                                                  sr_config, now),
               i |-> 1,
               pattern |-> ""]]
    /\ sub_pc' = [sub_pc EXCEPT ![w] = "read"]
    /\ UNCHANGED <<quiz_history, pending_quizzes, clock, job_b_pc, pu, sub_out, quiz_log,
                   briefings, QuizOthers>>

(* score / score_async in remove_pending_quiz(topic_key): one iteration of *)
(* the loop; the quiz it returns gives the pattern, None gives 'learning'. *)
RemovePendingQuiz(w) ==
    /\ sub_pc[w] = "read"
    /\ LET next == remove_pending_quiz_next(pending_quizzes, sub_call[w].topic_key,
                                            sub_call[w].i)
           pattern == IF next.removed # <<>> THEN next.removed[1].pattern ELSE "learning"
       IN /\ pending_quizzes' = next.pending
          /\ IF next.returned
             THEN /\ sub_call' = [sub_call EXCEPT ![w].pattern = pattern]
                  /\ sub_pc' = [sub_pc EXCEPT ![w] = "removed"]
             ELSE /\ sub_call' = [sub_call EXCEPT ![w].i = next.i]
                  /\ sub_pc' = sub_pc
    /\ UNCHANGED <<quiz_history, clock, job_b_pc, pu, sub_out, quiz_log, briefings,
                   QuizOthers>>

(* The QuizResult score / score_async builds from the call's now. *)
ScoredResult(call) ==
    [date |-> strftime_date(call.now), q1_correct |-> call.q1_correct,
     q2_evaluation |-> call.q2_evaluation, pattern |-> call.pattern]

(* score / score_async in update_quiz_history: the topic has an entry and  *)
(* the call writes the level computed from the level read and appends the  *)
(* result, and returns; or the topic has no entry and the call goes on to  *)
(* construct one.                                                          *)
UpdateQuizHistory(w) ==
    /\ sub_pc[w] = "removed"
    /\ LET call == sub_call[w]
       IN IF HasKey(quiz_history, call.topic_key)
          THEN /\ quiz_history' = update_quiz_history(quiz_history, call.topic_key,
                                                      ScoredResult(call),
                                                      call.sr_update.new_level,
                                                      call.sr_update.new_interval_days,
                                                      call.sr_update.next_quiz_at)
               /\ quiz_log' = LogResult(quiz_log, call, "scored")
               /\ sub_call' = [sub_call EXCEPT ![w] = NoCall]
               /\ sub_pc' = [sub_pc EXCEPT ![w] = "idle"]
          ELSE /\ sub_pc' = [sub_pc EXCEPT ![w] = "storing"]
               /\ UNCHANGED <<quiz_history, quiz_log, sub_call>>
    /\ UNCHANGED <<pending_quizzes, clock, job_b_pc, pu, sub_out, briefings, QuizOthers>>

(* update_quiz_history after the constructor call: the new entry is stored *)
(* under the topic, over the entry another thread may have stored since,   *)
(* and written; the call returns.                                          *)
StoreQuizHistoryEntry(w) ==
    /\ sub_pc[w] = "storing"
    /\ LET call == sub_call[w]
       IN quiz_history' = update_quiz_history_store(quiz_history, call.topic_key,
                                                    ScoredResult(call),
                                                    call.sr_update.new_level,
                                                    call.sr_update.new_interval_days,
                                                    call.sr_update.next_quiz_at)
    /\ quiz_log' = LogResult(quiz_log, sub_call[w], "scored")
    /\ sub_call' = [sub_call EXCEPT ![w] = NoCall]
    /\ sub_pc' = [sub_pc EXCEPT ![w] = "idle"]
    /\ UNCHANGED <<pending_quizzes, clock, job_b_pc, pu, sub_out, briefings, QuizOthers>>

(* _run_job_b after a scan that found files: process_unanswered copies the *)
(* pending list; it returns at once when the list is empty, and groups the *)
(* quizzes by briefing file and takes now otherwise.                       *)
JobBStarts ==
    /\ job_b_pc = "idle"
    /\ LET pending == pending_quizzes
       IN IF pending = <<>>
          THEN /\ job_b_pc' = "selecting"
               /\ pu' = NoPU
          ELSE /\ job_b_pc' = "resolving"
               /\ pu' = [pending |-> pending, todo |-> GroupByFile(pending), now |-> clock]
    /\ UNCHANGED <<quiz_history, pending_quizzes, clock, sub_pc, sub_call, sub_out, quiz_log,
                   briefings, QuizOthers>>

(* The QuizResult process_unanswered builds for a pending quiz. *)
AutoResult(pq) ==
    [date |-> strftime_date(pu.now), q1_correct |-> FALSE, q2_evaluation |-> "poor",
     pattern |-> pq.pattern]

(* process_unanswered after the history update of the first quiz of its    *)
(* list: after the last quiz of a briefing file the result section is      *)
(* written to the file.                                                    *)
AutoIncorrectDone ==
    LET rest == Tail(pu.todo)
    IN /\ quiz_log' = LogResult(quiz_log, pu.todo[1], "auto")
       /\ pu' = [pu EXCEPT !.todo = rest]
       /\ job_b_pc' = IF rest # <<>> /\ rest[1].briefing_file = pu.todo[1].briefing_file
                      THEN "resolving" ELSE "appending"

(* process_unanswered's loop body for the next quiz of the copy:           *)
(* update_after_scoring(False, 'poor') and update_quiz_history.  The level *)
(* of an incorrect answer is 0 whatever level is read, so the read is part *)
(* of the step.  The topic has an entry and the call writes it, or it has  *)
(* none and the call goes on to construct one.                             *)
AutoIncorrect ==
    /\ job_b_pc = "resolving"
    /\ LET pq == pu.todo[1]
           sr_update == update_after_scoring(quiz_history, pq.topic_key, FALSE, "poor",
                                             sr_config, pu.now)
       IN IF HasKey(quiz_history, pq.topic_key)
          THEN /\ quiz_history' = update_quiz_history(quiz_history, pq.topic_key,
                                                      AutoResult(pq),
                                                      sr_update.new_level,
                                                      sr_update.new_interval_days,
                                                      sr_update.next_quiz_at)
               /\ AutoIncorrectDone
          ELSE /\ job_b_pc' = "storing"
               /\ UNCHANGED <<quiz_history, quiz_log, pu>>
    /\ UNCHANGED <<pending_quizzes, clock, sub_pc, sub_call, sub_out, briefings,
                   QuizOthers>>

(* update_quiz_history after the constructor call, in process_unanswered:  *)
(* the new entry is stored under the topic, over the entry a scoring       *)
(* thread may have stored since, and written.                              *)
AutoIncorrectStores ==
    /\ job_b_pc = "storing"
    /\ LET pq == pu.todo[1]
           sr_update == update_after_scoring(<<>>, pq.topic_key, FALSE, "poor",
                                             sr_config, pu.now)
       IN quiz_history' = update_quiz_history_store(quiz_history, pq.topic_key,
                                                    AutoResult(pq),
                                                    sr_update.new_level,
                                                    sr_update.new_interval_days,
                                                    sr_update.next_quiz_at)
    /\ AutoIncorrectDone
    /\ UNCHANGED <<pending_quizzes, clock, sub_pc, sub_call, sub_out, briefings,
                   QuizOthers>>

(* append_quiz_result for the briefing file of the quizzes just resolved:  *)
(* the file is written, or atomic_write raises and the exception leaves    *)
(* process_unanswered; _run_job_b catches it and the run is over, with the *)
(* pending list as it is.                                                  *)
AppendQuizResult(written) ==
    /\ job_b_pc = "appending"
    /\ IF written
       THEN /\ job_b_pc' = IF pu.todo = <<>> THEN "clearing" ELSE "resolving"
            /\ pu' = pu
       ELSE /\ job_b_pc' = "idle"
            /\ pu' = NoPU
    /\ UNCHANGED <<quiz_history, pending_quizzes, clock, sub_pc, sub_call, sub_out, quiz_log,
                   briefings, QuizOthers>>

(* The end of process_unanswered: clear_pending_quizzes and save; the run  *)
(* goes on to file selection.                                              *)
ClearPendingQuizzes ==
    /\ job_b_pc = "clearing"
    /\ pending_quizzes' = <<>>
    /\ job_b_pc' = "selecting"
    /\ pu' = NoPU
    /\ UNCHANGED <<quiz_history, clock, sub_pc, sub_call, sub_out, quiz_log, briefings,
                   QuizOthers>>

(* _run_job_b from file selection on, the briefing generated: step 8       *)
(* registers its quizzes as pending.  add_pending_quiz appends at the end  *)
(* of the list, which moves no quiz, and remove_pending_quiz's loop takes  *)
(* the first quiz of its topic that it meets, so a scoring thread running  *)
(* between two of the calls leaves what it would leave had both quizzes    *)
(* been added before, or both after, the iteration that comes between.     *)
JobBGenerates(topic_keys) ==
    /\ job_b_pc = "selecting"
    /\ briefings < MaxBriefings
    /\ LET added == AddPendingQuizzes(<<>>, briefings + 1, topic_keys, clock)
       IN /\ pending_quizzes' = pending_quizzes \o added
          /\ quiz_log' = LogIssued(quiz_log, added)
    /\ briefings' = briefings + 1
    /\ job_b_pc' = "idle"
    /\ UNCHANGED <<quiz_history, clock, pu, sub_pc, sub_call, sub_out, QuizOthers>>

(* _run_job_b from file selection on, when the selection or the generation *)
(* gave nothing, or raised: the run returns.                               *)
JobBFails ==
    /\ job_b_pc = "selecting"
    /\ job_b_pc' = "idle"
    /\ UNCHANGED <<quiz_history, pending_quizzes, clock, pu, sub_pc, sub_call, sub_out,
                   quiz_log, briefings, QuizOthers>>

(* One viewer window and the job B runs. *)
NextQuiz ==
    \/ MaySubmit(MaxEvents) /\ \E quiz \in IssuedQuizzes : SubmitAnswer("w1", quiz)
    \/ \E r \in ScoringResults :
          UpdateAfterScoringCall("w1", [kind |-> "json", value |-> r])
    \/ RemovePendingQuiz("w1")
    \/ UpdateQuizHistory("w1")
    \/ StoreQuizHistoryEntry("w1")
    \/ MayRun(MaxEvents) /\ JobBStarts
    \/ AutoIncorrect
    \/ AutoIncorrectStores
    \/ \E written \in BOOLEAN : AppendQuizResult(written)
    \/ ClearPendingQuizzes
    \/ JobBFails
    \/ \E tk \in TopicKeyLists : JobBGenerates(tk)

SpecQuiz == InitQuiz /\ [][NextQuiz]_vars

---------------------------------------------------------------------------
(* Claims about the quiz history.                                          *)

(* The level a topic has after its results, replayed in order from the     *)
(* level given. *)
RECURSIVE ReplayLevel(_, _, _)
ReplayLevel(level, results, max_level) ==
    IF results = <<>> THEN level
    ELSE ReplayLevel(calculate_next_level(results[1].q1_correct, results[1].q2_evaluation,
                                          level, max_level),
                     Tail(results), max_level)

(* C10: under a fixed configuration every step of scoring (score,          *)
(* score_async) or automatic-incorrect resolution (process_unanswered)     *)
(* leaves every topic of quiz_history with a level in 0 .. max_level; a    *)
(* topic that enters quiz_history has the level its results give when      *)
(* replayed from level 0; and no step raises the level of a topic by more  *)
(* than 1.                                                                 *)
C10_LevelsInRange ==
    [][\A i \in 1 .. Len(quiz_history') :
         LET topic_key == quiz_history'[i].key
             entry == quiz_history'[i].value
         IN /\ entry.level \in 0 .. sr_config.max_level
            /\ IF HasKey(quiz_history, topic_key)
               THEN entry.level <= DictGet(quiz_history, topic_key).level + 1
               ELSE /\ entry.level = ReplayLevel(0, entry.results, sr_config.max_level)
                    /\ entry.level <= 1]_vars

(* What holds of the levels: every step leaves every level in              *)
(* 0 .. max_level, a topic that enters quiz_history has the level its      *)
(* first result gives from level 0, and a scoring call writes at most one  *)
(* more than the level it read.                                            *)
LevelsInRangeOfLevelRead ==
    [][/\ \A i \in 1 .. Len(quiz_history') :
            LET topic_key == quiz_history'[i].key
                entry == quiz_history'[i].value
            IN /\ entry.level \in 0 .. sr_config.max_level
               /\ ~HasKey(quiz_history, topic_key) =>
                      /\ entry.level = ReplayLevel(0, entry.results, sr_config.max_level)
                      /\ entry.level <= 1
       /\ \A w \in Windows :
            (sub_pc[w] = "scoring" /\ sub_pc'[w] = "read") =>
               LET topic_key == sub_call[w].topic_key
                   level == IF HasKey(quiz_history, topic_key)
                            THEN DictGet(quiz_history, topic_key).level ELSE 0
               IN sub_call'[w].sr_update.new_level <= level + 1]_vars

(* A topic answered correctly three times under max_level 2: its third     *)
(* event is scored at the top level and stays there.                       *)
C10_Witness ==
    /\ sr_config.max_level = 2
    /\ \E i \in 1 .. Len(quiz_history) :
         LET entry == quiz_history[i].value
         IN /\ entry.level = 2
            /\ Len(entry.results) = 3
            /\ \A j \in 1 .. 3 : /\ entry.results[j].q1_correct
                                 /\ entry.results[j].q2_evaluation = "good"

(* A job B run resolved two pending quizzes of one unseen topic.           *)
C10_UnansweredReached ==
    /\ pending_quizzes = <<>>
    /\ \E i \in 1 .. Len(quiz_history) :
         LET entry == quiz_history[i].value
         IN /\ entry.level = 0
            /\ Len(entry.results) = 2
            /\ \A j \in 1 .. 2 : entry.results[j].pattern = "review"

(* A scoring call read level 1, the job B run reset the topic to level 0,  *)
(* and the call wrote level 2 over it.                                     *)
C10_RaisedByTwo ==
    \E i \in 1 .. Len(quiz_history) :
        LET entry == quiz_history[i].value
        IN /\ entry.level = 2
           /\ Len(entry.results) = 3
           /\ entry.results[1].q1_correct /\ entry.results[1].q2_evaluation = "good"
           /\ ~entry.results[2].q1_correct /\ entry.results[2].q2_evaluation = "poor"
           /\ entry.results[3].q1_correct /\ entry.results[3].q2_evaluation = "good"

---------------------------------------------------------------------------
(* Specification SpecInterval: one call of get_interval_days and of        *)
(* calculate_next_quiz_date on the same level, table and `now`.            *)

MaxLevelArg == 7          \* level 0 .. MaxLevelArg

IntervalTables == {_DEFAULT_INTERVALS, <<1, 3>>, <<2, 5, 10>>, <<4>>}

IntervalNows == {NowDay * TicksPerDay + t : t \in 0 .. TicksPerDay - 1}

InitInterval ==
    /\ iv_in \in [level : 0 .. MaxLevelArg, intervals : IntervalTables, now : IntervalNows]
    /\ iv_out = NotCalled
    /\ IdleScore /\ IdleDisc /\ IdleLevel /\ IdleSel /\ IdleQuiz /\ IdleCalls /\ IdleSched
    /\ IdleJobs /\ IdleRetry /\ IdleExt

IntervalCalls ==
    /\ ~iv_out.called
    /\ iv_out' = [called |-> TRUE,
                  interval_days |-> get_interval_days(iv_in.level, iv_in.intervals),
                  next_quiz_at |-> calculate_next_quiz_date(iv_in.level, iv_in.intervals,
                                                            iv_in.now)]
    /\ UNCHANGED <<iv_in, scoreVars, discVars, levelVars, selVars, quizVars, callVars,
                   schedVars, jobVars, retryVars, extVars>>

NextInterval == IntervalCalls

SpecInterval == InitInterval /\ [][NextInterval]_vars

(* C11: for a level >= 0 and a non-empty table, get_interval_days returns  *)
(* the table's entry at the level, or the last entry when the level is at  *)
(* or past the table's length, and calculate_next_quiz_date returns the    *)
(* calendar day of `now` plus that many days.                              *)
C11_IntervalAndDate ==
    iv_out.called =>
        LET table == iv_in.intervals
            expected == IF iv_in.level < Len(table)
                        THEN table[iv_in.level + 1]
                        ELSE table[Len(table)]
        IN /\ iv_out.interval_days = expected
           /\ iv_out.next_quiz_at = (iv_in.now \div TicksPerDay) + expected

(* A level past the end of a three-entry table, `now` after midnight. *)
C11_Witness ==
    /\ iv_out.called
    /\ iv_in.intervals = <<2, 5, 10>>
    /\ iv_in.level > 3
    /\ iv_in.now % TicksPerDay # 0
    /\ iv_out.interval_days = 10

---------------------------------------------------------------------------
(* Specification SpecStore: update_after_scoring and get_due_topics, each  *)
(* called once on a store as scoring leaves it or as state.json loads it.  *)

(* What a call of update_after_scoring leaves in the store: it calls       *)
(* get_quiz_history and reads entry.level, and writes nothing.  The        *)
(* variant stores the new level in the entry it read.                      *)
StoreAfterUpdateAfterScoring_WritesLevel(state, topic_key, q1_correct, q2_evaluation, config, now) ==
    IF HasKey(state.quiz_history, topic_key)
    THEN [state EXCEPT !.quiz_history =
            DictPut(state.quiz_history, topic_key,
                    [DictGet(state.quiz_history, topic_key) EXCEPT !.level =
                       update_after_scoring(state.quiz_history, topic_key, q1_correct,
                                            q2_evaluation, config, now).new_level])]
    ELSE state

StoreAfterUpdateAfterScoring(state, topic_key, q1_correct, q2_evaluation, config, now) ==
    state

(* `last_result` of a due topic with no results *)
NoneResult == [is_none |-> TRUE]

(* get_due_topics with `<` in place of `<=`. *)
get_due_topics_StrictlyBefore(history, today) ==
    LET IsDue(kv) == kv.value.next_quiz_at # NoDate /\ kv.value.next_quiz_at < today
        due == SelectSeq(history, IsDue)
    IN [i \in 1 .. Len(due) |->
          [topic_key |-> due[i].key,
           level |-> due[i].value.level,
           interval_days |-> due[i].value.interval_days,
           last_result |-> IF due[i].value.results # <<>>
                           THEN due[i].value.results[Len(due[i].value.results)]
                           ELSE NoneResult]]

(* get_due_topics(state_manager, today=) -> list[dict]; dates compare as   *)
(* "YYYY-MM-DD" strings do, and the empty string is falsy.                 *)
get_due_topics(history, today) ==
    LET IsDue(kv) == kv.value.next_quiz_at # NoDate /\ kv.value.next_quiz_at <= today
        due == SelectSeq(history, IsDue)
    IN [i \in 1 .. Len(due) |->
          [topic_key |-> due[i].key,
           level |-> due[i].value.level,
           interval_days |-> due[i].value.interval_days,
           last_result |-> IF due[i].value.results # <<>>
                           THEN due[i].value.results[Len(due[i].value.results)]
                           ELSE NoneResult]]

MaxAgo == 3               \* a stored topic was last quizzed 0 .. MaxAgo days ago

(* The entry of a topic that reached `level` by correct answers on `day`   *)
(* (one wrong answer for level 0).                                         *)
EntryAt(level, config, day) ==
    [last_quizzed_at |-> day,
     interval_days |-> get_interval_days(level, config.intervals),
     level |-> level,
     next_quiz_at |-> day + get_interval_days(level, config.intervals),
     results |-> IF level = 0
                 THEN <<[date |-> day, q1_correct |-> FALSE, q2_evaluation |-> "poor",
                         pattern |-> "learning"]>>
                 ELSE [i \in 1 .. level |->
                         [date |-> day, q1_correct |-> TRUE, q2_evaluation |-> "good",
                          pattern |-> "learning"]]]

(* The entries a topic can have: written by scoring, or read from a        *)
(* state.json that holds none of the fields, or next_quiz_at alone         *)
(* (_dict_to_quiz_history_entry).                                          *)
StoredEntries(config) ==
    {EntryAt(l, config, NowDay - ago) : l \in 0 .. config.max_level, ago \in 0 .. MaxAgo}
        \cup {QuizHistoryEntry, [QuizHistoryEntry EXCEPT !.next_quiz_at = NowDay]}

StoredHistories(config) ==
    {<<>>}
    \cup {<<[key |-> "a.md#intro", value |-> e]>> : e \in StoredEntries(config)}
    \cup {<<[key |-> "b.md#intro", value |-> EntryAt(0, config, NowDay - 1)],
            [key |-> "a.md#intro", value |-> e]>> : e \in StoredEntries(config)}

StoredPending ==
    {<<>>,
     <<[briefing_file |-> (NowDay - 1) * TicksPerDay, topic_key |-> "a.md#intro",
        pattern |-> "review", created_at |-> (NowDay - 1) * TicksPerDay]>>}

InitStore ==
    /\ sr_config \in Configs
    /\ quiz_history \in StoredHistories(sr_config)
    /\ pending_quizzes \in StoredPending
    /\ clock \in {NowDay * TicksPerDay, NowDay * TicksPerDay + 1}
    /\ IdleQuizThreads
    /\ uas_out = NotCalled
    /\ due_out = NotCalled
    /\ IdleScore /\ IdleDisc /\ IdleLevel /\ IdleSel /\ IdleInterval /\ IdleSched
    /\ IdleJobs /\ IdleRetry /\ IdleExt

UpdateAfterScoring(topic_key, scoring_result) ==
    /\ ~uas_out.called
    /\ LET after == StoreAfterUpdateAfterScoring(QuizState, topic_key,
                        scoring_result.q1_correct, scoring_result.q2_evaluation,
                        sr_config, clock)
       IN /\ quiz_history' = after.quiz_history
          /\ pending_quizzes' = after.pending_quizzes
    /\ uas_out' = [called |-> TRUE, topic_key |-> topic_key,
                   q1_correct |-> scoring_result.q1_correct,
                   q2_evaluation |-> scoring_result.q2_evaluation,
                   before |-> QuizState,
                   ret |-> update_after_scoring(quiz_history, topic_key,
                               scoring_result.q1_correct, scoring_result.q2_evaluation,
                               sr_config, clock)]
    /\ UNCHANGED <<sr_config, clock, quizThreadVars, due_out, scoreVars, discVars, levelVars, selVars,
                   intervalVars, schedVars, jobVars, retryVars, extVars>>

GetDueTopics(today) ==
    /\ ~due_out.called
    /\ due_out' = [called |-> TRUE, today |-> today, before |-> QuizState,
                   ret |-> get_due_topics(quiz_history, today)]
    /\ UNCHANGED <<quizVars, uas_out, scoreVars, discVars, levelVars, selVars, intervalVars,
                   schedVars, jobVars, retryVars, extVars>>

NextStore ==
    \/ \E t \in Topics, r \in ScoringResults : UpdateAfterScoring(t, r)
    \/ \E today \in {strftime_date(clock), strftime_date(clock) + 1} : GetDueTopics(today)

SpecStore == InitStore /\ [][NextStore]_vars

---------------------------------------------------------------------------
(* Claims about update_after_scoring and get_due_topics.                   *)

(* The level the store held for the topic of the recorded call. *)
UasCurrentLevel ==
    IF HasKey(uas_out.before.quiz_history, uas_out.topic_key)
    THEN DictGet(uas_out.before.quiz_history, uas_out.topic_key).level
    ELSE 0

(* The level the scoring rules give from UasCurrentLevel. *)
UasExpectedLevel ==
    IF ~uas_out.q1_correct \/ uas_out.q2_evaluation = "poor" THEN 0
    ELSE IF uas_out.q2_evaluation = "good"
    THEN (IF UasCurrentLevel + 1 <= sr_config.max_level
          THEN UasCurrentLevel + 1 ELSE sr_config.max_level)
    ELSE UasCurrentLevel

(* The returned dict but for the brand-new-topic case. *)
UasReturnsUpdate ==
    LET table == sr_config.intervals
        days == IF UasExpectedLevel < Len(table)
                THEN table[UasExpectedLevel + 1] ELSE table[Len(table)]
    IN /\ uas_out.ret.new_level = UasExpectedLevel
       /\ uas_out.ret.new_interval_days = days
       /\ uas_out.ret.next_quiz_at = (clock \div TicksPerDay) + days
       /\ (uas_out.ret.level_change = "upgrade") = (uas_out.ret.new_level > UasCurrentLevel)
       /\ (uas_out.ret.level_change = "downgrade") = (uas_out.ret.new_level < UasCurrentLevel)
       /\ (uas_out.ret.level_change = "same") = (uas_out.ret.new_level = UasCurrentLevel)

UasBrandNewGood ==
    /\ ~HasKey(uas_out.before.quiz_history, uas_out.topic_key)
    /\ uas_out.q1_correct
    /\ uas_out.q2_evaluation = "good"

(* C12 as stated: update_after_scoring returns the new level computed from *)
(* the stored level (0 for a topic without entry), the interval and date   *)
(* of the new level and the level change; and a brand-new topic scored     *)
(* (True, 'good') yields new_level 1 and 'upgrade'.                        *)
C12_BrandNewAlwaysLevelOne ==
    uas_out.called =>
        /\ UasReturnsUpdate
        /\ UasBrandNewGood =>
              uas_out.ret.new_level = 1 /\ uas_out.ret.level_change = "upgrade"

(* C12 amended: as stated, but a brand-new topic scored (True, 'good')     *)
(* yields new_level min(1, max_level): level 1 and 'upgrade' when          *)
(* max_level >= 1, level 0 and 'same' when max_level is 0.                 *)
C12_UpdateAfterScoring ==
    uas_out.called =>
        /\ UasReturnsUpdate
        /\ UasBrandNewGood =>
              IF sr_config.max_level >= 1
              THEN uas_out.ret.new_level = 1 /\ uas_out.ret.level_change = "upgrade"
              ELSE uas_out.ret.new_level = 0 /\ uas_out.ret.level_change = "same"

(* A brand-new topic scored (True, 'good') under max_level 2. *)
C12_Witness ==
    /\ uas_out.called
    /\ UasBrandNewGood
    /\ sr_config.max_level = 2
    /\ uas_out.ret.new_level = 1
    /\ uas_out.ret.level_change = "upgrade"

(* C13: a call of update_after_scoring leaves quiz_history and             *)
(* pending_quizzes as they were before the call.                           *)
C13_UpdateAfterScoringReadsOnly ==
    uas_out.called =>
        /\ quiz_history = uas_out.before.quiz_history
        /\ pending_quizzes = uas_out.before.pending_quizzes

(* A call that computed an upgrade for a stored topic with a pending quiz. *)
C13_Witness ==
    /\ uas_out.called
    /\ HasKey(uas_out.before.quiz_history, uas_out.topic_key)
    /\ uas_out.ret.level_change = "upgrade"
    /\ pending_quizzes # <<>>

(* Whether the i-th entry of the store before the get_due_topics call is   *)
(* due on the day asked. *)
DueBefore(i) ==
    LET entry == due_out.before.quiz_history[i].value
    IN entry.next_quiz_at # NoDate /\ entry.next_quiz_at <= due_out.today

(* The positions in the returned list of the records of the i-th entry. *)
DueRecordsOf(i) ==
    {j \in 1 .. Len(due_out.ret) :
        due_out.ret[j].topic_key = due_out.before.quiz_history[i].key}

(* C14: get_due_topics(today) returns exactly one record for each entry of *)
(* quiz_history whose next_quiz_at is set and on or before today, and none *)
(* for any other entry; a record carries the entry's topic_key, level,     *)
(* interval_days and last result (None without results); the records       *)
(* follow the insertion order of quiz_history, so equal inputs give equal  *)
(* lists; the store is as before the call.                                 *)
C14_DueTopics ==
    due_out.called =>
        LET history == due_out.before.quiz_history
        IN /\ \A i \in 1 .. Len(history) :
                IF DueBefore(i)
                THEN /\ Cardinality(DueRecordsOf(i)) = 1
                     /\ \A j \in DueRecordsOf(i) :
                          LET entry == history[i].value
                              rec == due_out.ret[j]
                          IN /\ rec.level = entry.level
                             /\ rec.interval_days = entry.interval_days
                             /\ IF entry.results = <<>>
                                THEN rec.last_result = NoneResult
                                ELSE rec.last_result = entry.results[Len(entry.results)]
                ELSE DueRecordsOf(i) = {}
           /\ Len(due_out.ret) = Cardinality({i \in 1 .. Len(history) : DueBefore(i)})
           /\ \A i1, i2 \in 1 .. Len(history) :
                \A j1 \in DueRecordsOf(i1), j2 \in DueRecordsOf(i2) :
                    i1 < i2 => j1 < j2
           /\ quiz_history = history
           /\ pending_quizzes = due_out.before.pending_quizzes

(* Two stored topics, the second due exactly today and returned second,    *)
(* the first due since yesterday or earlier.                               *)
C14_Witness ==
    /\ due_out.called
    /\ Len(due_out.ret) = 2
    /\ due_out.before.quiz_history[2].value.next_quiz_at = due_out.today
    /\ due_out.before.quiz_history[1].value.next_quiz_at < due_out.today
    /\ due_out.ret[2].topic_key = "a.md#intro"

(* A due topic without results, and a topic that is not yet due. *)
C14_NoneResultReached ==
    /\ due_out.called
    /\ Len(due_out.ret) = 1
    /\ due_out.ret[1].last_result = NoneResult
    /\ Len(due_out.before.quiz_history) = 1

---------------------------------------------------------------------------
(* Claims about the stored entries under scoring and job B runs.           *)

(* The entry of quiz_log for a pending quiz. *)
LogEntries(quiz) ==
    {e \in quiz_log : e.briefing_file = quiz.briefing_file /\ e.topic_key = quiz.topic_key}

IsPending(briefing_file, topic_key) ==
    \E i \in 1 .. Len(pending_quizzes) :
        /\ pending_quizzes[i].briefing_file = briefing_file
        /\ pending_quizzes[i].topic_key = topic_key

(* The entry of a topic after the step, and whether the step wrote it. *)
EntryAfter(topic_key) == DictGet(quiz_history', topic_key)

EntryWritten(topic_key) ==
    /\ HasKey(quiz_history', topic_key)
    /\ \/ ~HasKey(quiz_history, topic_key)
       \/ DictGet(quiz_history, topic_key) # EntryAfter(topic_key)

(* The results a topic holds before and after the step. *)
ResultsBefore(topic_key) ==
    IF HasKey(quiz_history, topic_key)
    THEN DictGet(quiz_history, topic_key).results ELSE <<>>

ResultsAfter(topic_key) ==
    IF HasKey(quiz_history', topic_key) THEN EntryAfter(topic_key).results ELSE <<>>

(* The pending quizzes of a topic, in list order. *)
PendingOf(topic_key) ==
    LET OfTopic(pq) == pq.topic_key = topic_key
    IN SelectSeq(pending_quizzes, OfTopic)

(* The windows whose scoring call records its result in the step, and      *)
(* whether the step is the job B run resolving a quiz.                     *)
Recording == {w \in Windows : sub_pc[w] \in {"removed", "storing"} /\ sub_pc'[w] = "idle"}

Resolving == job_b_pc \in {"resolving", "storing"} /\ pu'.todo # pu.todo

(* The topics whose entry the step replaces: update_quiz_history found no  *)
(* entry before it constructed one, and stores the new entry over the one  *)
(* another thread has stored since.                                        *)
Replaced ==
    {k \in Topics :
        /\ HasKey(quiz_history, k)
        /\ \/ \E w \in Recording : sub_pc[w] = "storing" /\ sub_call[w].topic_key = k
           \/ Resolving /\ job_b_pc = "storing" /\ pu.todo[1].topic_key = k}

(* The results of a topic that the step keeps. *)
KeptResults(topic_key) ==
    IF topic_key \in Replaced THEN <<>> ELSE ResultsBefore(topic_key)

(* The dates of the events that write the topic's entry in the step. *)
EventDates(topic_key) ==
    {strftime_date(sub_call[w].now) : w \in {v \in Recording :
                                               sub_call[v].topic_key = topic_key}}
    \cup (IF Resolving /\ pu.todo[1].topic_key = topic_key
          THEN {strftime_date(pu.now)} ELSE {})

(* C15: an entry that a scoring event or an automatic-incorrect resolution *)
(* wrote is self-consistent: interval_days is the table's entry for the    *)
(* stored level (the last entry past the table's end), next_quiz_at is the *)
(* date of the event plus interval_days, and last_quizzed_at is the date   *)
(* of the event and of the last result.                                    *)
C15_EntrySelfConsistent ==
    [][\A k \in Topics :
         EntryWritten(k) =>
            LET entry == EntryAfter(k)
                table == sr_config.intervals
            IN /\ entry.results # <<>>
               /\ entry.results[Len(entry.results)].date \in EventDates(k)
               /\ entry.last_quizzed_at = entry.results[Len(entry.results)].date
               /\ entry.interval_days = (IF entry.level < Len(table)
                                         THEN table[entry.level + 1]
                                         ELSE table[Len(table)])
               /\ entry.next_quiz_at = entry.last_quizzed_at + entry.interval_days]_vars

(* A topic at level 2 under the two-entry table, scored after midnight:    *)
(* its interval is the table's last entry.                                 *)
C15_Witness ==
    /\ sr_config.intervals = <<1, 3>>
    /\ \E i \in 1 .. Len(quiz_history) :
         /\ quiz_history[i].value.level = 2
         /\ quiz_history[i].value.interval_days = 3
         /\ quiz_history[i].value.last_quizzed_at = NowDay
         /\ clock > NowDay * TicksPerDay

(* C16: in every step an entry of quiz_history stays in place, and the     *)
(* results of every topic are the results it had, followed by one new      *)
(* result on the scored topic in the step that records a scored answer, by *)
(* one new result on the quiz's topic in the step that resolves a pending  *)
(* quiz automatically, and by nothing in any other step.                   *)
C16_ResultsAppendOnly ==
    [][/\ Len(quiz_history') >= Len(quiz_history)
       /\ \A i \in 1 .. Len(quiz_history) : quiz_history'[i].key = quiz_history[i].key
       /\ \A k \in Topics :
            /\ Len(ResultsAfter(k)) >= Len(ResultsBefore(k))
            /\ SubSeq(ResultsAfter(k), 1, Len(ResultsBefore(k))) = ResultsBefore(k)
       /\ LET written == {sub_call[w].topic_key : w \in Recording}
                            \cup (IF Resolving THEN {pu.todo[1].topic_key} ELSE {})
          IN /\ Cardinality(written) <= 1
             /\ \A k \in Topics :
                  Len(ResultsAfter(k)) =
                      Len(ResultsBefore(k)) + (IF k \in written THEN 1 ELSE 0)]_vars

(* What holds of the results: every step keeps every entry's place, and    *)
(* the results of every topic are the results the step keeps, followed by  *)
(* one new result on the topic of the call that records in the step; the   *)
(* step keeps all results of a topic unless it replaces the topic's entry. *)
ResultsAppendOnlyUnlessReplaced ==
    [][/\ Len(quiz_history') >= Len(quiz_history)
       /\ \A i \in 1 .. Len(quiz_history) : quiz_history'[i].key = quiz_history[i].key
       /\ Cardinality(Replaced) <= 1
       /\ LET written == {sub_call[w].topic_key : w \in Recording}
                            \cup (IF Resolving THEN {pu.todo[1].topic_key} ELSE {})
          IN /\ Cardinality(written) <= 1
             /\ Replaced \subseteq written
             /\ \A k \in Topics :
                  ResultsAfter(k) = KeptResults(k) \o
                      (IF k \in written
                       THEN <<ResultsAfter(k)[Len(ResultsAfter(k))]>> ELSE <<>>)]_vars

(* Two calls found no entry of the topic; each stored its own new entry,   *)
(* and the history holds one result where two were recorded.               *)
C16_ResultLost ==
    /\ \A w \in Windows : sub_pc[w] = "idle"
    /\ job_b_pc \in {"idle", "selecting"}
    /\ ResultsLogged(quiz_log) = 2
    /\ TotalResults(quiz_history) = 1

(* Two topics in the history: the first was scored, then the pending quiz *)
(* of the second was resolved automatically.                               *)
C16_Witness ==
    /\ Len(quiz_history) = 2
    /\ Len(quiz_history[1].value.results) = 1
    /\ Len(quiz_history[2].value.results) = 1
    /\ quiz_history[1].value.results[1].q2_evaluation = "good"
    /\ quiz_history[2].value.results[1].q2_evaluation = "poor"
    /\ job_b_pc = "selecting"

(* The step that resolves a pending quiz gives its topic one result with   *)
(* q1_correct False, 'poor' and the quiz's pattern, and level 0 with       *)
(* next_quiz_at = today + intervals[0]; the other topics keep their entry. *)
ResolvedAsIncorrect ==
    Resolving =>
        LET pq == pu.todo[1]
        IN /\ HasKey(quiz_history', pq.topic_key)
           /\ EntryAfter(pq.topic_key).level = 0
           /\ EntryAfter(pq.topic_key).next_quiz_at =
                 strftime_date(pu.now) + sr_config.intervals[1]
           /\ ResultsAfter(pq.topic_key) =
                 Append(ResultsBefore(pq.topic_key), AutoResult(pq))
           /\ \A k \in Topics \ {pq.topic_key} :
                 /\ HasKey(quiz_history', k) = HasKey(quiz_history, k)
                 /\ ResultsAfter(k) = ResultsBefore(k)

(* What the resolving step does when the entry it stores may replace       *)
(* another: the automatic result follows the results the step keeps.       *)
ResolvedAsIncorrectOverKept ==
    Resolving =>
        LET pq == pu.todo[1]
        IN /\ HasKey(quiz_history', pq.topic_key)
           /\ EntryAfter(pq.topic_key).level = 0
           /\ EntryAfter(pq.topic_key).next_quiz_at =
                 strftime_date(pu.now) + sr_config.intervals[1]
           /\ ResultsAfter(pq.topic_key) =
                 Append(KeptResults(pq.topic_key), AutoResult(pq))
           /\ \A k \in Topics \ {pq.topic_key} :
                 /\ HasKey(quiz_history', k) = HasKey(quiz_history, k)
                 /\ ResultsAfter(k) = ResultsBefore(k)

(* The run reaches file selection with every quiz of its copy resolved and *)
(* the pending list empty.                                                 *)
SelectsAfterResolution ==
    (job_b_pc # "selecting" /\ job_b_pc' = "selecting") =>
        /\ pu.todo = <<>>
        /\ pending_quizzes' = <<>>

(* The rest of the run leaves quiz_history alone and only adds the new     *)
(* briefing's quizzes.                                                     *)
ResolutionStands ==
    (job_b_pc = "selecting" /\ job_b_pc' = "idle") =>
        /\ quiz_history' = quiz_history
        /\ SubSeq(pending_quizzes', 1, Len(pending_quizzes)) = pending_quizzes
        /\ \A i \in Len(pending_quizzes) + 1 .. Len(pending_quizzes') :
             pending_quizzes'[i].created_at = clock

(* C17: a job B run that scanned files resolves, before file selection,    *)
(* every pending quiz: a run that copied pending quizzes goes on until it  *)
(* reaches file selection; each quiz's topic gets one result with          *)
(* q1_correct False, q2_evaluation 'poor' and the quiz's pattern, and      *)
(* level 0 with next_quiz_at = today + intervals[0]; pending_quizzes is    *)
(* empty when the selection starts; the rest of the run, generation        *)
(* succeeding or not, leaves quiz_history as it is and only adds the new   *)
(* briefing's quizzes.                                                     *)
C17_UnansweredResolvedFirst ==
    [][/\ job_b_pc \in {"resolving", "storing", "appending", "clearing"}
            => job_b_pc' # "idle"
       /\ ResolvedAsIncorrect
       /\ SelectsAfterResolution
       /\ ResolutionStands]_vars

(* What holds of the resolution: every quiz gets its automatic result, a   *)
(* run that reaches file selection has resolved every quiz of its copy and *)
(* emptied the pending list, and the rest of the run leaves the results.   *)
UnansweredResolvedWhenWritten ==
    [][ResolvedAsIncorrectOverKept /\ SelectsAfterResolution /\ ResolutionStands]_vars

(* The run resolved the quiz of a topic without an entry while the user's  *)
(* answer to it was being recorded: the automatic result took the place of *)
(* the scored one, or the scored result that of the automatic one.         *)
C17_ScoredResultReplaced ==
    /\ job_b_pc = "selecting"
    /\ \E e \in quiz_log : e.scored = 1 /\ e.auto = 1
    /\ \E i \in 1 .. Len(quiz_history) :
         /\ Len(quiz_history[i].value.results) = 1
         /\ quiz_history[i].value.results[1].q2_evaluation = "poor"
         /\ \A e \in quiz_log : e.topic_key = quiz_history[i].key

(* A run is at file selection after it resolved the pending quiz of a      *)
(* topic that had reached level 1.                                         *)
C17_Witness ==
    /\ job_b_pc = "selecting"
    /\ pending_quizzes = <<>>
    /\ \E i \in 1 .. Len(quiz_history) :
         LET entry == quiz_history[i].value
         IN /\ Len(entry.results) = 2
            /\ entry.results[1].q2_evaluation = "good"
            /\ entry.results[1].q1_correct
            /\ entry.results[2].q2_evaluation = "poor"
            /\ entry.results[2].pattern = "review"
            /\ entry.level = 0

(* The briefing file could not be written: the run is over, the quiz has   *)
(* its automatic result and is still pending.                              *)
C17_ResolvedButPending ==
    /\ job_b_pc = "idle"
    /\ \E i \in 1 .. Len(pending_quizzes) :
          \E e \in LogEntries(pending_quizzes[i]) : e.auto = 1

---------------------------------------------------------------------------
(* Specification SpecSched: the Scheduler (scheduler.py).  APScheduler     *)
(* runs the trigger handlers on the threads of its pool and every click   *)
(* of the tray menu starts run_manual on a new thread; a step is one read  *)
(* or write of the scheduler's fields.                                     *)

MaxFires == 3             \* cron firings and manual runs in a behaviour

Features == {"a", "b"}

Other(x) == IF x = "a" THEN "b" ELSE "a"

(* The pool threads: the one that runs the cron job job_x_0 and the one    *)
(* that runs job_x_deferred, a job of its own id.                          *)
TriggerThread(x) == IF x = "a" THEN "trigger_a" ELSE "trigger_b"

DeferredThread(x) == IF x = "a" THEN "deferred_a" ELSE "deferred_b"

PoolThreads == {"trigger_a", "trigger_b", "deferred_a", "deferred_b"}

(* The threads the tray menu starts, one for each click: two of them can   *)
(* be under way at a time.                                                 *)
ManualThreads == {"manual", "manual_2"}

Threads == PoolThreads \cup ManualThreads

(* The feature whose handler _on_trigger_x a pool thread runs. *)
FeatureOf(t) == IF t \in {"trigger_a", "deferred_a"} THEN "a" ELSE "b"

(* run_manual's arguments from the tray menu *)
ManualFeatures == {<<"a">>, <<"b">>, <<"a", "b">>}

(* The state after start(config, on_job_a, on_job_b). *)
InitSched ==
    /\ th_pc = [t \in Threads |-> "idle"]
    /\ th_job = [t \in Threads |-> "none"]
    /\ manual_rest = [t \in ManualThreads |-> <<>>]
    /\ _lock = [x \in Features |-> "free"]
    /\ _running = [x \in Features |-> FALSE]
    /\ deferred = [x \in Features |-> FALSE]
    /\ fires_left = MaxFires
    /\ _started = TRUE
    /\ IdleScore /\ IdleDisc /\ IdleLevel /\ IdleSel /\ IdleQuiz /\ IdleInterval /\ IdleCalls
    /\ IdleJobs /\ IdleRetry /\ IdleExt

SchedOthers ==
    <<scoreVars, discVars, levelVars, selVars, quizVars, intervalVars, callVars, jobVars,
      retryVars, extVars>>

(* A CronTrigger of feature x fires: the pool calls _on_trigger_x. *)
CronFires(x) ==
    /\ _started
    /\ fires_left > 0
    /\ th_pc[TriggerThread(x)] = "idle"
    /\ th_pc' = [th_pc EXCEPT ![TriggerThread(x)] = "check"]
    /\ fires_left' = fires_left - 1
    /\ UNCHANGED <<th_job, manual_rest, _lock, _running, deferred, _started, SchedOthers>>

(* The DateTrigger of job_x_deferred fires while no instance of the job is *)
(* running: the pool calls _on_trigger_x and the job, which has no further *)
(* run date, leaves the job store.                                         *)
DeferredFires(x) ==
    /\ _started
    /\ deferred[x]
    /\ th_pc[DeferredThread(x)] = "idle"
    /\ th_pc' = [th_pc EXCEPT ![DeferredThread(x)] = "check"]
    /\ deferred' = [deferred EXCEPT ![x] = FALSE]
    /\ UNCHANGED <<th_job, manual_rest, _lock, _running, fires_left, _started, SchedOthers>>

(* The DateTrigger of job_x_deferred comes due while the handler of an     *)
(* earlier job_x_deferred is still under way: the job allows one instance  *)
(* at a time (max_instances is left at its default), so the run is skipped *)
(* and the job, which has no further run date, leaves the job store.       *)
DeferredSkipped(x) ==
    /\ _started
    /\ deferred[x]
    /\ th_pc[DeferredThread(x)] # "idle"
    /\ deferred' = [deferred EXCEPT ![x] = FALSE]
    /\ UNCHANGED <<th_pc, th_job, manual_rest, _lock, _running, fires_left, _started,
                   SchedOthers>>

(* _on_trigger_x on pool thread t reads the other feature's _running flag: *)
(* it adds the deferred job and returns, or goes on to                     *)
(* _execute_job_x_wrapper.                                                 *)
OnTrigger(t) ==
    /\ t \in PoolThreads
    /\ th_pc[t] = "check"
    /\ IF _running[Other(FeatureOf(t))]
       THEN /\ deferred' = [deferred EXCEPT ![FeatureOf(t)] = TRUE]
            /\ th_pc' = [th_pc EXCEPT ![t] = "idle"]
            /\ UNCHANGED th_job
       ELSE /\ th_pc' = [th_pc EXCEPT ![t] = "lock"]
            /\ th_job' = [th_job EXCEPT ![t] = FeatureOf(t)]
            /\ UNCHANGED deferred
    /\ UNCHANGED <<manual_rest, _lock, _running, fires_left, _started, SchedOthers>>

(* The tray menu starts run_manual(features) on a new thread t, whatever   *)
(* the other threads are doing; the new thread takes the first name that   *)
(* is free.                                                                *)
RunManual(t, features) ==
    /\ fires_left > 0
    /\ th_pc[t] = "idle"
    /\ t = "manual_2" => th_pc["manual"] # "idle"
    /\ manual_rest' = [manual_rest EXCEPT ![t] = features]
    /\ th_pc' = [th_pc EXCEPT ![t] = "next"]
    /\ fires_left' = fires_left - 1
    /\ UNCHANGED <<th_job, _lock, _running, deferred, _started, SchedOthers>>

(* run_manual goes to the wrapper of the next feature asked for, "a"       *)
(* before "b", or returns.                                                 *)
ManualNext(t) ==
    /\ t \in ManualThreads
    /\ th_pc[t] = "next"
    /\ IF manual_rest[t] = <<>>
       THEN /\ th_pc' = [th_pc EXCEPT ![t] = "idle"]
            /\ UNCHANGED <<th_job, manual_rest>>
       ELSE /\ th_pc' = [th_pc EXCEPT ![t] = "lock"]
            /\ th_job' = [th_job EXCEPT ![t] = Head(manual_rest[t])]
            /\ manual_rest' = [manual_rest EXCEPT ![t] = Tail(manual_rest[t])]
    /\ UNCHANGED <<_lock, _running, deferred, fires_left, _started, SchedOthers>>

(* _execute_job_x_wrapper: `with self._lock_x` *)
AcquireLock(t) ==
    /\ th_pc[t] = "lock"
    /\ _lock[th_job[t]] = "free"
    /\ _lock' = [_lock EXCEPT ![th_job[t]] = t]
    /\ th_pc' = [th_pc EXCEPT ![t] = "set"]
    /\ UNCHANGED <<th_job, manual_rest, _running, deferred, fires_left, _started,
                   SchedOthers>>

(* _execute_job_x_wrapper: `self._running_x = True`, then the callback     *)
(* starts.                                                                 *)
SetRunning(t) ==
    /\ th_pc[t] = "set"
    /\ _running' = [_running EXCEPT ![th_job[t]] = TRUE]
    /\ th_pc' = [th_pc EXCEPT ![t] = "callback"]
    /\ UNCHANGED <<th_job, manual_rest, _lock, deferred, fires_left, _started, SchedOthers>>

(* The callback returns or raises: `finally: self._running_x = False`,     *)
(* and the lock is released.                                               *)
CallbackEnds(t) ==
    /\ th_pc[t] = "callback"
    /\ _running' = [_running EXCEPT ![th_job[t]] = FALSE]
    /\ _lock' = [_lock EXCEPT ![th_job[t]] = "free"]
    /\ th_job' = [th_job EXCEPT ![t] = "none"]
    /\ th_pc' = [th_pc EXCEPT ![t] = IF t \in ManualThreads THEN "next" ELSE "idle"]
    /\ UNCHANGED <<manual_rest, deferred, fires_left, _started, SchedOthers>>

(* update_schedule(config), from the settings dialog: _remove_all_jobs     *)
(* removes every job whose id starts with job_a or job_b, the deferred     *)
(* ones among them, and _register_jobs adds the cron jobs again.           *)
UpdateSchedule ==
    /\ deferred' = [x \in Features |-> FALSE]
    /\ UNCHANGED <<th_pc, th_job, manual_rest, _lock, _running, fires_left, _started,
                   SchedOthers>>

(* stop(): the APScheduler shuts down without waiting for the handlers     *)
(* under way and fires no job any more.                                    *)
Stop ==
    /\ _started
    /\ _started' = FALSE
    /\ deferred' = [x \in Features |-> FALSE]
    /\ UNCHANGED <<th_pc, th_job, manual_rest, _lock, _running, fires_left, SchedOthers>>

(* The steps while the scheduler runs. *)
NextStarted ==
    \/ \E x \in Features : CronFires(x)
    \/ \E x \in Features : DeferredFires(x)
    \/ \E x \in Features : DeferredSkipped(x)
    \/ \E t \in PoolThreads : OnTrigger(t)
    \/ \E t \in ManualThreads : \E f \in ManualFeatures : RunManual(t, f)
    \/ \E t \in ManualThreads : ManualNext(t)
    \/ \E t \in Threads : AcquireLock(t)
    \/ \E t \in Threads : SetRunning(t)
    \/ \E t \in Threads : CallbackEnds(t)
    \/ UpdateSchedule

NextSched ==
    \/ NextStarted
    \/ Stop

SpecSched == InitSched /\ [][NextSched]_vars

(* The threads that are inside the callback of feature x. *)
InCallback(x) == {t \in Threads : th_pc[t] = "callback" /\ th_job[t] = x}

(* C18: the job A callback and the job B callback never execute at the     *)
(* same time, whatever the interleaving of scheduled triggers and manual   *)
(* runs.                                                                   *)
C18_JobsNeverOverlap ==
    InCallback("a") = {} \/ InCallback("b") = {}

(* Two clicks of the tray menu, 'run A' and 'run B': both callbacks        *)
(* execute on the two manual threads while every pool thread is idle.      *)
C18_ManualRunsOverlap ==
    /\ \A t \in PoolThreads : th_pc[t] = "idle"
    /\ \A t \in ManualThreads : th_pc[t] = "callback"
    /\ th_job["manual"] # th_job["manual_2"]

(* Two callbacks of the same feature never overlap: _lock_x serialises     *)
(* them. *)
SameFeatureSerialised ==
    \A x \in Features : Cardinality(InCallback(x)) <= 1

(***************************************************************************)
(* The jobs and their run counters: main.py _run_job_a, _run_job_b and     *)
(* StateManager.increment_run_count.                                       *)
(*                                                                         *)
(* A job reads its feature's counter before the selection and passes the   *)
(* counter plus one to select_files; it writes the counter in step 9,      *)
(* after the briefing was generated and written.  Every return and every   *)
(* exception before step 9 leaves the counter alone.  Two invocations of   *)
(* one feature never overlap (SameFeatureSerialised), invocations of the   *)
(* two features may.                                                       *)
(***************************************************************************)
MaxInvocations == 3

(* AppState, as far as the jobs' counters go. *)
AppCounters == [run_count_a |-> run_count_a, run_count_b |-> run_count_b]

RunCountOf(state, feature) ==
    IF feature = "a" THEN state.run_count_a ELSE state.run_count_b

increment_run_count_AlwaysA(state, feature) ==
    [state EXCEPT !.run_count_a = @ + 1]

(* StateManager.increment_run_count; any other feature raises ValueError   *)
(* and no caller passes one.                                               *)
increment_run_count(state, feature) ==
    IF feature = "a"
    THEN [state EXCEPT !.run_count_a = @ + 1]
    ELSE [state EXCEPT !.run_count_b = @ + 1]

InitJobs ==
    /\ run_count_a = 0 /\ run_count_b = 0
    /\ job_pc = [x \in Features |-> "idle"]
    /\ select_run_count = [x \in Features |-> 0]
    /\ invocations = [x \in Features |-> [started |-> 0, completed |-> 0]]
    /\ IdleScore /\ IdleDisc /\ IdleLevel /\ IdleSel /\ IdleQuiz /\ IdleInterval /\ IdleCalls
    /\ IdleSched /\ IdleRetry /\ IdleExt

JobOthers ==
    <<scoreVars, discVars, levelVars, selVars, quizVars, intervalVars, callVars, schedVars,
      retryVars, extVars>>

(* _run_job_a / _run_job_b is called. *)
JobStarts(x) ==
    /\ job_pc[x] = "idle"
    /\ invocations[x].started < MaxInvocations
    /\ job_pc' = [job_pc EXCEPT ![x] = "started"]
    /\ invocations' = [invocations EXCEPT ![x].started = @ + 1]
    /\ UNCHANGED <<run_count_a, run_count_b, select_run_count, JobOthers>>

(* The job returns before the selection: input_folders is empty, the scan  *)
(* found no file, or the scan raised.                                      *)
JobSkips(x) ==
    /\ job_pc[x] = "started"
    /\ job_pc' = [job_pc EXCEPT ![x] = "idle"]
    /\ UNCHANGED <<run_count_a, run_count_b, select_run_count, invocations, JobOthers>>

(* run_count = sm.state.run_count_x + 1; select_files(..., run_count=run_count, ...) *)
JobSelects(x) ==
    /\ job_pc[x] = "started"
    /\ select_run_count' = [select_run_count EXCEPT ![x] = RunCountOf(AppCounters, x) + 1]
    /\ job_pc' = [job_pc EXCEPT ![x] = "selected"]
    /\ UNCHANGED <<run_count_a, run_count_b, invocations, JobOthers>>

(* The job ends between the selection and step 9: nothing was selected,    *)
(* the generated briefing is empty, or a step raised.                      *)
JobAborts(x) ==
    /\ job_pc[x] = "selected"
    /\ job_pc' = [job_pc EXCEPT ![x] = "idle"]
    /\ UNCHANGED <<run_count_a, run_count_b, select_run_count, invocations, JobOthers>>

(* Step 9 and what follows it: sm.increment_run_count(x). *)
JobCompletes(x) ==
    /\ job_pc[x] = "selected"
    /\ LET state == increment_run_count(AppCounters, x) IN
        /\ run_count_a' = state.run_count_a
        /\ run_count_b' = state.run_count_b
    /\ invocations' = [invocations EXCEPT ![x].completed = @ + 1]
    /\ job_pc' = [job_pc EXCEPT ![x] = "idle"]
    /\ UNCHANGED <<select_run_count, JobOthers>>

NextJobs ==
    \/ \E x \in Features : JobStarts(x)
    \/ \E x \in Features : JobSkips(x)
    \/ \E x \in Features : JobSelects(x)
    \/ \E x \in Features : JobAborts(x)
    \/ \E x \in Features : JobCompletes(x)

SpecJobs == InitJobs /\ [][NextJobs]_vars

RunCountAfter(x) == IF x = "a" THEN run_count_a' ELSE run_count_b'

(* C19 as stated: whenever no invocation of a feature is under way, the    *)
(* feature's counter equals the number of invocations of that feature.     *)
C19_CounterCountsInvocations ==
    \A x \in Features :
        job_pc[x] = "idle" => RunCountOf(AppCounters, x) = invocations[x].started

(* C19, amended: the run_count given to select_files is the stored counter *)
(* plus one; an invocation that reaches step 9 raises its feature's        *)
(* counter by exactly one, to the value select_files was given, and an     *)
(* invocation that ends before leaves it unchanged; nothing else changes   *)
(* a counter.  So the counter of a feature equals the number of its        *)
(* invocations that reached step 9 and never exceeds the number of its     *)
(* invocations.                                                            *)
C19_CounterCountsCompletedRuns ==
    /\ [](\A x \in Features :
            /\ RunCountOf(AppCounters, x) = invocations[x].completed
            /\ RunCountOf(AppCounters, x) <= invocations[x].started)
    /\ [][\A x \in Features :
            /\ (job_pc[x] = "started" /\ job_pc'[x] = "selected")
                  => select_run_count'[x] = RunCountOf(AppCounters, x) + 1
            /\ invocations'[x].completed # invocations[x].completed
                  => /\ RunCountAfter(x) = RunCountOf(AppCounters, x) + 1
                     /\ RunCountAfter(x) = select_run_count[x]
            /\ invocations'[x].completed = invocations[x].completed
                  => RunCountAfter(x) = RunCountOf(AppCounters, x)]_vars

(* Feature b was invoked three times: one run ended early, two reached     *)
(* step 9, the second of them with run_count 2; feature a completed once.  *)
C19_Witness ==
    /\ invocations["b"] = [started |-> 3, completed |-> 2]
    /\ job_pc["b"] = "idle" /\ run_count_b = 2 /\ select_run_count["b"] = 2
    /\ run_count_a = 1 /\ invocations["a"].started = 1


(***************************************************************************)
(* copilot_client.py: CopilotClientWrapper._call_with_retry.               *)
(*                                                                         *)
(* One call of the function, one step per loop stage.  What coro_factory   *)
(* does on each call is the input: it returns a result, raises an          *)
(* Exception, runs into the timeout of asyncio.wait_for, or the task is    *)
(* cancelled (asyncio.CancelledError is a BaseException, which neither     *)
(* except clause catches).  rt_attempts logs the calls of coro_factory.    *)
(***************************************************************************)
_MAX_RETRIES == 3
_RETRY_DELAYS == <<5, 15, 45>>

Results == {"r1", "r2"}
Exceptions == {"RuntimeError", "ValueError"}

NoError == [type |-> "None", attempt |-> 0]

InRange_OneMore(a) == a <= _MAX_RETRIES

(* for attempt in range(_MAX_RETRIES): is there another iteration? *)
InRange(a) == a < _MAX_RETRIES

InitRetry ==
    /\ rt_pc = "try" /\ attempt = 0 /\ last_error = NoError /\ rt_out = NotCalled
    /\ slept = <<>> /\ rt_attempts = <<>>
    /\ IdleScore /\ IdleDisc /\ IdleLevel /\ IdleSel /\ IdleQuiz /\ IdleInterval /\ IdleCalls
    /\ IdleSched /\ IdleJobs /\ IdleExt

RetryOthers ==
    <<scoreVars, discVars, levelVars, selVars, quizVars, intervalVars, callVars, schedVars,
      jobVars, extVars>>

(* result = await asyncio.wait_for(coro_factory(), timeout=timeout); return result *)
AttemptSucceeds(result) ==
    /\ rt_pc = "try"
    /\ rt_attempts' = Append(rt_attempts, [kind |-> "ok", value |-> result])
    /\ rt_out' = [called |-> TRUE, kind |-> "returned", value |-> result]
    /\ rt_pc' = "done"
    /\ UNCHANGED <<attempt, last_error, slept, RetryOthers>>

(* except Exception as e: last_error = e *)
AttemptRaises(e) ==
    /\ rt_pc = "try"
    /\ rt_attempts' = Append(rt_attempts, [kind |-> "exception", value |-> e])
    /\ last_error' = [type |-> e, attempt |-> attempt]
    /\ rt_pc' = "failed"
    /\ UNCHANGED <<attempt, rt_out, slept, RetryOthers>>

(* except asyncio.TimeoutError: last_error = TimeoutError(...) *)
AttemptTimesOut ==
    /\ rt_pc = "try"
    /\ rt_attempts' = Append(rt_attempts, [kind |-> "timeout", value |-> "asyncio.TimeoutError"])
    /\ last_error' = [type |-> "TimeoutError", attempt |-> attempt]
    /\ rt_pc' = "failed"
    /\ UNCHANGED <<attempt, rt_out, slept, RetryOthers>>

(* The await is cancelled: the CancelledError leaves the function. *)
AttemptCancelled ==
    /\ rt_pc = "try"
    /\ rt_attempts' = Append(rt_attempts, [kind |-> "cancelled", value |-> "CancelledError"])
    /\ rt_out' = [called |-> TRUE, kind |-> "propagated", value |-> "CancelledError"]
    /\ rt_pc' = "done"
    /\ UNCHANGED <<attempt, last_error, slept, RetryOthers>>

(* if attempt < _MAX_RETRIES - 1: await asyncio.sleep(_RETRY_DELAYS[attempt]) *)
Backoff ==
    /\ rt_pc = "failed"
    /\ slept' = IF attempt < _MAX_RETRIES - 1
                THEN Append(slept, _RETRY_DELAYS[attempt + 1])
                ELSE slept
    /\ rt_pc' = "next"
    /\ UNCHANGED <<attempt, last_error, rt_out, rt_attempts, RetryOthers>>

(* The sleep is cancelled. *)
BackoffCancelled ==
    /\ rt_pc = "failed"
    /\ attempt < _MAX_RETRIES - 1
    /\ rt_out' = [called |-> TRUE, kind |-> "propagated", value |-> "CancelledError"]
    /\ rt_pc' = "done"
    /\ UNCHANGED <<attempt, last_error, slept, rt_attempts, RetryOthers>>

(* The loop goes on to its next iteration. *)
LoopNext ==
    /\ rt_pc = "next"
    /\ InRange(attempt + 1)
    /\ attempt' = attempt + 1
    /\ rt_pc' = "try"
    /\ UNCHANGED <<last_error, rt_out, slept, rt_attempts, RetryOthers>>

(* The loop is over: raise last_error *)
RaiseLastError ==
    /\ rt_pc = "next"
    /\ ~InRange(attempt + 1)
    /\ rt_out' = [called |-> TRUE, kind |-> "raised", value |-> last_error]
    /\ rt_pc' = "done"
    /\ UNCHANGED <<attempt, last_error, slept, rt_attempts, RetryOthers>>

NextRetry ==
    \/ \E result \in Results : AttemptSucceeds(result)
    \/ \E e \in Exceptions : AttemptRaises(e)
    \/ AttemptTimesOut
    \/ AttemptCancelled
    \/ Backoff
    \/ BackoffCancelled
    \/ LoopNext
    \/ RaiseLastError

SpecRetry == InitRetry /\ [][NextRetry]_vars

AttemptFailed(i) == rt_attempts[i].kind \in {"exception", "timeout"}

(* The error that stands for the i-th call of coro_factory: the exception  *)
(* it raised, or a TimeoutError when it timed out.                         *)
ErrorOfAttempt(i) ==
    [type |-> IF rt_attempts[i].kind = "timeout" THEN "TimeoutError" ELSE rt_attempts[i].value,
     attempt |-> i - 1]

(* C20: coro_factory is called at most 3 times; a call that succeeds is    *)
(* the last one, all calls before it failed, and its result is what the    *)
(* function returns; once 3 calls have failed the function ends by raising *)
(* the error of the third; the function returns only after a successful    *)
(* call and raises last_error only after 3 failed ones.  (A cancellation   *)
(* of the task is not a failed attempt: it leaves the function at once.)   *)
C20_CallWithRetry ==
    LET n == Len(rt_attempts) IN
    /\ n <= _MAX_RETRIES
    /\ \A i \in 1..n :
          rt_attempts[i].kind = "ok"
              => /\ i = n
                 /\ \A j \in 1..(i - 1) : AttemptFailed(j)
                 /\ rt_pc = "done"
                 /\ rt_out = [called |-> TRUE, kind |-> "returned", value |-> rt_attempts[i].value]
    /\ (rt_pc = "done" /\ n = _MAX_RETRIES /\ \A i \in 1..n : AttemptFailed(i))
          => rt_out = [called |-> TRUE, kind |-> "raised", value |-> ErrorOfAttempt(n)]
    /\ (rt_out.called /\ rt_out.kind = "returned") => (n >= 1 /\ rt_attempts[n].kind = "ok")
    /\ (rt_out.called /\ rt_out.kind = "raised")
          => /\ n = _MAX_RETRIES
             /\ \A i \in 1..n : AttemptFailed(i)
             /\ rt_out.value = ErrorOfAttempt(n)
    /\ (rt_out.called /\ rt_out.kind = "propagated") => rt_out.value = "CancelledError"
    /\ (rt_pc = "done") <=> rt_out.called

(* Three calls failed, an exception, a timeout and another exception, and  *)
(* the function raised the third one's error after sleeping 5 and 15.      *)
C20_Witness ==
    /\ rt_out.called /\ rt_out.kind = "raised"
    /\ rt_out.value = [type |-> "ValueError", attempt |-> 2]
    /\ rt_attempts[1].kind = "exception" /\ rt_attempts[1].value = "RuntimeError"
    /\ rt_attempts[2].kind = "timeout"
    /\ slept = <<5, 15>>

(* The third call succeeded after two failures and its result came back. *)
C20_RecoveredOnThird ==
    /\ Len(rt_attempts) = 3 /\ rt_attempts[3].kind = "ok"
    /\ rt_out.called /\ rt_out.kind = "returned" /\ rt_out.value = "r2"


---------------------------------------------------------------------------
(* state_manager.py: _app_state_to_dict and _dict_to_app_state.            *)
(*                                                                         *)
(* A dataclass instance is a record of its fields; a JSON object is a      *)
(* record of its keys, read with get(d, key, default); the quiz_history    *)
(* object is the list of its (key, value) pairs in insertion order.  The   *)
(* fields hold values of their declared types, for which str(), int(),     *)
(* bool() and list() return an equal value.                                *)

get(d, key, default) == IF key \in DOMAIN d THEN d[key] ELSE default

str(v) == v
int(v) == v
bool(v) == IF v THEN TRUE ELSE FALSE
list(v) == [i \in 1 .. Len(v) |-> v[i]]

_dict_to_quiz_result(d) ==
    [date |-> str(get(d, "date", "")),
     q1_correct |-> bool(get(d, "q1_correct", FALSE)),
     q2_evaluation |-> str(get(d, "q2_evaluation", "poor")),
     pattern |-> str(get(d, "pattern", ""))]

_dict_to_quiz_history_entry_ResultsReversed(d) ==
    LET results_raw == get(d, "results", <<>>) IN
    [last_quizzed_at |-> str(get(d, "last_quizzed_at", "")),
     interval_days |-> int(get(d, "interval_days", 1)),
     level |-> int(get(d, "level", 0)),
     next_quiz_at |-> str(get(d, "next_quiz_at", "")),
     results |-> [i \in 1 .. Len(results_raw) |->
                    _dict_to_quiz_result(results_raw[Len(results_raw) + 1 - i])]]

_dict_to_quiz_history_entry(d) ==
    LET results_raw == get(d, "results", <<>>) IN
    [last_quizzed_at |-> str(get(d, "last_quizzed_at", "")),
     interval_days |-> int(get(d, "interval_days", 1)),
     level |-> int(get(d, "level", 0)),
     next_quiz_at |-> str(get(d, "next_quiz_at", "")),
     results |-> [i \in 1 .. Len(results_raw) |-> _dict_to_quiz_result(results_raw[i])]]

_dict_to_pending_quiz(d) ==
    [briefing_file |-> str(get(d, "briefing_file", "")),
     topic_key |-> str(get(d, "topic_key", "")),
     pattern |-> str(get(d, "pattern", "")),
     created_at |-> str(get(d, "created_at", ""))]

_dict_to_app_state(d) ==
    LET pending_raw == get(d, "pending_quizzes", <<>>)
        history_raw == get(d, "quiz_history", <<>>)
    IN [run_count_a |-> int(get(d, "run_count_a", 0)),
        run_count_b |-> int(get(d, "run_count_b", 0)),
        last_run_at |-> str(get(d, "last_run_at", "")),
        output_folder_path |-> str(get(d, "output_folder_path", "")),
        random_pick_history |-> list(get(d, "random_pick_history", <<>>)),
        pending_quizzes |-> [i \in 1 .. Len(pending_raw) |->
                               _dict_to_pending_quiz(pending_raw[i])],
        quiz_history |-> [i \in 1 .. Len(history_raw) |->
                            [key |-> history_raw[i].key,
                             value |-> _dict_to_quiz_history_entry(history_raw[i].value)]]]

_quiz_result_to_dict(result) ==
    [date |-> result.date, q1_correct |-> result.q1_correct,
     q2_evaluation |-> result.q2_evaluation, pattern |-> result.pattern]

_quiz_history_entry_to_dict(entry) ==
    [last_quizzed_at |-> entry.last_quizzed_at,
     interval_days |-> entry.interval_days,
     level |-> entry.level,
     next_quiz_at |-> entry.next_quiz_at,
     results |-> [i \in 1 .. Len(entry.results) |-> _quiz_result_to_dict(entry.results[i])]]

_pending_quiz_to_dict(pq) ==
    [briefing_file |-> pq.briefing_file, topic_key |-> pq.topic_key,
     pattern |-> pq.pattern, created_at |-> pq.created_at]

_app_state_to_dict(state) ==
    [run_count_a |-> state.run_count_a,
     run_count_b |-> state.run_count_b,
     last_run_at |-> state.last_run_at,
     output_folder_path |-> state.output_folder_path,
     random_pick_history |-> state.random_pick_history,
     pending_quizzes |-> [i \in 1 .. Len(state.pending_quizzes) |->
                            _pending_quiz_to_dict(state.pending_quizzes[i])],
     quiz_history |-> [i \in 1 .. Len(state.quiz_history) |->
                         [key |-> state.quiz_history[i].key,
                          value |-> _quiz_history_entry_to_dict(state.quiz_history[i].value)]]]

(* The states of the round trip. *)
AppStates ==
    LET r1 == [date |-> "2026-01-01", q1_correct |-> TRUE, q2_evaluation |-> "good",
               pattern |-> "learning"]
        r2 == [date |-> "2026-01-02", q1_correct |-> FALSE, q2_evaluation |-> "partial",
               pattern |-> "review"]
        entries ==
            {[last_quizzed_at |-> "", interval_days |-> 1, level |-> 0, next_quiz_at |-> "",
              results |-> <<>>],
             [last_quizzed_at |-> "2026-01-01", interval_days |-> 3, level |-> 1,
              next_quiz_at |-> "2026-01-04", results |-> <<r1>>],
             [last_quizzed_at |-> "2026-01-02", interval_days |-> 14, level |-> 3,
              next_quiz_at |-> "2026-01-16", results |-> <<r1, r2>>]}
        pq1 == [briefing_file |-> "briefing_quiz_1.md", topic_key |-> "t2",
                pattern |-> "learning", created_at |-> "2026-01-01T09:00:00"]
        pq2 == [briefing_file |-> "", topic_key |-> "t1", pattern |-> "review",
                created_at |-> ""]
    IN [run_count_a : {0, 5},
        run_count_b : {0, 3},
        last_run_at : {"", "2026-01-01T09:00:00"},
        output_folder_path : {"", "/vault/_briefings"},
        random_pick_history : {<<>>, <<"n1.md">>, <<"n2.md", "n1.md">>},
        pending_quizzes : {<<>>, <<pq1>>, <<pq2, pq1>>},
        quiz_history :
            {<<>>}
            \cup {<<[key |-> "t1", value |-> e]>> : e \in entries}
            \cup {<<[key |-> "t2", value |-> e], [key |-> "t1", value |-> e]>> :
                     e \in entries}]

InitRound ==
    /\ st_in \in AppStates
    /\ st_out = NotCalled
    /\ IdleScore /\ IdleDisc /\ IdleLevel /\ IdleSel /\ IdleQuiz /\ IdleInterval /\ IdleCalls
    /\ IdleSched /\ IdleJobs /\ IdleRetry /\ IdleRead /\ IdlePicks /\ IdleWeights

RoundOthers ==
    <<scoreVars, discVars, levelVars, selVars, quizVars, intervalVars, callVars, schedVars,
      jobVars, retryVars, readVars, pickVars, weightVars>>

RoundTrip ==
    /\ ~st_out.called
    /\ st_out' = [called |-> TRUE,
                  dict |-> _app_state_to_dict(st_in),
                  restored |-> _dict_to_app_state(_app_state_to_dict(st_in))]
    /\ UNCHANGED <<st_in, RoundOthers>>

NextRound == RoundTrip

SpecRound == InitRound /\ [][NextRound]_vars

(* C21: parsing back the serialised AppState gives an equal AppState:      *)
(* counters, last_run_at, output path, random_pick_history, the pending    *)
(* quizzes in order and every quiz_history entry with all its fields and   *)
(* its results in order.                                                   *)
C21_RoundTrip ==
    st_out.called =>
        /\ st_out.restored = st_in
        /\ \A i \in 1 .. Len(st_in.quiz_history) :
              /\ st_out.restored.quiz_history[i].key = st_in.quiz_history[i].key
              /\ st_out.restored.quiz_history[i].value.results
                    = st_in.quiz_history[i].value.results

(* A state with two topics of two results each, two pending quizzes and    *)
(* two recorded picks came back equal.                                     *)
C21_Witness ==
    /\ st_out.called
    /\ Len(st_in.quiz_history) = 2
    /\ Len(st_in.quiz_history[1].value.results) = 2
    /\ Len(st_in.pending_quizzes) = 2
    /\ Len(st_in.random_pick_history) = 2
    /\ st_in.run_count_a = 5
    /\ st_out.restored = st_in

---------------------------------------------------------------------------
(* utils.py: safe_read_with_fallback.                                      *)
(*                                                                         *)
(* A file is "inaccessible" (Path.exists() itself raises an OSError other  *)
(* than the ones it takes for "no such file": a directory that may not be  *)
(* searched, a name that is too long), "missing", "unreadable" (it exists  *)
(* and read_text raises), "corrupt" (the parser raises on its content) or  *)
(* holds a content the parser accepts.  notify_callback is None, a callable that returns, or   *)
(* a callable that raises an Exception.  The result records what the call  *)
(* returned or that it raised, the files it read and the number of calls   *)
(* of notify_callback.                                                     *)

Contents == {"v1", "v2"}
FileStates == {"inaccessible", "missing", "unreadable", "corrupt"} \cup Contents
NotifyCallbacks == {"None", "returns", "raises"}

(* parser(raw) of a content the parser accepts *)
parser(raw) == [parsed |-> raw]

default_factory == [parsed |-> "default"]

(* file_path.read_text() and parser(raw) both succeed *)
ReadsAndParses(file) == file \in Contents

safe_read_with_fallback(file_path, bak_path, notify_callback) ==
    LET read1 == IF file_path # "missing" THEN <<"main">> ELSE <<>>
        read2 == IF bak_path # "missing" THEN Append(read1, "bak") ELSE read1
        (* 3. the default: notify, then default_factory() *)
        Default(read, notified) ==
            CASE notify_callback = "None" ->
                    [raised |-> FALSE, value |-> default_factory, source |-> "default",
                     read |-> read, notified |-> notified]
              [] notify_callback = "returns" ->
                    [raised |-> FALSE, value |-> default_factory, source |-> "default",
                     read |-> read, notified |-> notified + 1]
              [] notify_callback = "raises" ->
                    [raised |-> TRUE, value |-> [parsed |-> "none"], source |-> "none",
                     read |-> read, notified |-> notified + 1]
        (* exists() raises: it is called outside the try blocks *)
        ExistsRaises(read) ==
            [raised |-> TRUE, value |-> [parsed |-> "none"], source |-> "none",
             read |-> read, notified |-> 0]
    IN IF file_path = "inaccessible"
       THEN ExistsRaises(<<>>)
       ELSE IF ReadsAndParses(file_path)
       THEN (* 1. the main file *)
            [raised |-> FALSE, value |-> parser(file_path), source |-> "main",
             read |-> <<"main">>, notified |-> 0]
       ELSE IF bak_path = "inaccessible"
       THEN ExistsRaises(read1)
       ELSE IF ReadsAndParses(bak_path)
       THEN (* 2. the .bak; the notification is inside the try block, so   *)
            (* an Exception it raises is handled like a parse failure      *)
            CASE notify_callback = "None" ->
                    [raised |-> FALSE, value |-> parser(bak_path), source |-> "bak",
                     read |-> read2, notified |-> 0]
              [] notify_callback = "returns" ->
                    [raised |-> FALSE, value |-> parser(bak_path), source |-> "bak",
                     read |-> read2, notified |-> 1]
              [] notify_callback = "raises" -> Default(read2, 1)
       ELSE Default(read2, 0)

InitRead ==
    /\ rd_in \in [file_path : FileStates, bak_path : FileStates,
                  notify_callback : NotifyCallbacks]
    /\ rd_out = NotCalled
    /\ IdleScore /\ IdleDisc /\ IdleLevel /\ IdleSel /\ IdleQuiz /\ IdleInterval /\ IdleCalls
    /\ IdleSched /\ IdleJobs /\ IdleRetry /\ IdleRound /\ IdlePicks /\ IdleWeights

ReadOthers ==
    <<scoreVars, discVars, levelVars, selVars, quizVars, intervalVars, callVars, schedVars,
      jobVars, retryVars, roundVars, pickVars, weightVars>>

SafeReadWithFallback ==
    /\ ~rd_out.called
    /\ rd_out' = [called |-> TRUE,
                  ret |-> safe_read_with_fallback(rd_in.file_path, rd_in.bak_path,
                                                  rd_in.notify_callback)]
    /\ UNCHANGED <<rd_in, ReadOthers>>

NextRead == SafeReadWithFallback

SpecRead == InitRead /\ [][NextRead]_vars

(* What the claim promises for the call recorded in rd_out, when           *)
(* notify_callback is one of `callbacks` and the two files are in one of   *)
(* `states`: no exception; the parsed main    *)
(* file when it parses, and then the .bak is not read and nothing is       *)
(* notified; else the parsed .bak when it parses; else the default; one    *)
(* notification (when a callback was given) in the last two cases.         *)
ReadContract(callbacks, states) ==
    (rd_out.called /\ rd_in.notify_callback \in callbacks
       /\ rd_in.file_path \in states /\ rd_in.bak_path \in states) =>
        LET ret == rd_out.ret
            once == IF rd_in.notify_callback = "None" THEN 0 ELSE 1
        IN /\ ~ret.raised
           /\ ReadsAndParses(rd_in.file_path)
                 => /\ ret.value = parser(rd_in.file_path)
                    /\ ret.read = <<"main">>
                    /\ ret.notified = 0
           /\ (~ReadsAndParses(rd_in.file_path) /\ ReadsAndParses(rd_in.bak_path))
                 => /\ ret.value = parser(rd_in.bak_path)
                    /\ ret.notified = once
           /\ (~ReadsAndParses(rd_in.file_path) /\ ~ReadsAndParses(rd_in.bak_path))
                 => /\ ret.value = default_factory
                    /\ ret.notified = once

(* C22: safe_read_with_fallback never raises, returns the parsed main      *)
(* file, else the parsed .bak, else the default, does not read the .bak    *)
(* when the main file parses, and calls notify_callback exactly once when  *)
(* the result comes from the .bak or the default and never otherwise.      *)
C22_SafeRead == ReadContract(NotifyCallbacks, FileStates)

(* The same holds of every call whose notify_callback does not raise and   *)
(* whose paths exists() can test.                                          *)
SafeReadWithQuietCallback ==
    ReadContract({"None", "returns"}, FileStates \ {"inaccessible"})

(* exists() raised: the call raised without a notification or a value. *)
C22_ExistsRaised ==
    /\ rd_out.called
    /\ rd_in.file_path = "inaccessible"
    /\ rd_in.notify_callback = "returns"
    /\ rd_out.ret.raised
    /\ rd_out.ret.notified = 0

---------------------------------------------------------------------------
(* Specification SpecDue: scoring calls and job B runs as in SpecQuiz,     *)
(* spread over several days, under the configurations with the largest     *)
(* max_level: one viewer window, correct and incorrect answers, briefings  *)
(* with two quizzes.                                                       *)

MaxDays == 4              \* days that pass after the first event
MaxDueEvents == 2         \* results recorded over all topics

(* The calendar day changes. *)
DayPasses ==
    /\ strftime_date(clock) < NowDay + MaxDays
    /\ clock' = clock + timedelta(1)
    /\ UNCHANGED <<quiz_history, pending_quizzes, quizThreadVars, QuizOthers>>

InitDue ==
    /\ InitQuiz
    /\ sr_config.max_level = MaxCfgLevel

NextDue ==
    \/ MaySubmit(MaxDueEvents) /\ \E quiz \in IssuedQuizzes : SubmitAnswer("w1", quiz)
    \/ \E r \in {[q1_correct |-> TRUE, q2_evaluation |-> "good"],
                 [q1_correct |-> FALSE, q2_evaluation |-> "poor"]} :
          UpdateAfterScoringCall("w1", [kind |-> "json", value |-> r])
    \/ RemovePendingQuiz("w1")
    \/ UpdateQuizHistory("w1")
    \/ StoreQuizHistoryEntry("w1")
    \/ MayRun(MaxDueEvents) /\ JobBStarts
    \/ AutoIncorrect
    \/ AutoIncorrectStores
    \/ \E written \in BOOLEAN : AppendQuizResult(written)
    \/ ClearPendingQuizzes
    \/ \E tk \in {t \in TopicKeyLists : Len(t) = 2} : JobBGenerates(tk)
    \/ DayPasses

SpecDue == InitDue /\ [][NextDue]_vars

DueKeys(today) ==
    LET due == get_due_topics(quiz_history, today)
    IN {due[i].topic_key : i \in 1 .. Len(due)}

(* The first day the topic's entry is due again, from the day D of its     *)
(* latest result and its level L: D + intervals[min(L, len - 1)].          *)
DueFrom(entry) ==
    entry.results[Len(entry.results)].date
        + sr_config.intervals[Min(entry.level, Len(sr_config.intervals) - 1) + 1]

(* C23: from a topic's latest scoring or automatic resolution on, on day D *)
(* with resulting level L, and as long as no other follows, get_due_topics *)
(* returns the topic for today exactly when today is on or after           *)
(* D + intervals[min(L, len - 1)].                                         *)
C23_DueFromNextQuizDate ==
    \A i \in 1 .. Len(quiz_history) :
        LET entry == quiz_history[i].value IN
        \A today \in (NowDay - 1) .. (DueFrom(entry) + 2) :
            quiz_history[i].key \in DueKeys(today) <=> today >= DueFrom(entry)

(* Topic a was scored on day NowDay and reached level 1; three days later  *)
(* the clock is at its due date under intervals <<1, 3>> and it is due,    *)
(* while topic b, reset to level 0 the day before, has been due since.     *)
C23_Witness ==
    /\ HasKey(quiz_history, "a.md#intro") /\ HasKey(quiz_history, "b.md#intro")
    /\ LET a == DictGet(quiz_history, "a.md#intro")
           b == DictGet(quiz_history, "b.md#intro")
       IN /\ a.level = 1 /\ a.results[Len(a.results)].date = NowDay
          /\ b.level = 0 /\ b.results[Len(b.results)].date = NowDay + 2
       /\ sr_config.intervals = <<1, 3>>
       /\ strftime_date(clock) = NowDay + 3
       /\ DueKeys(strftime_date(clock)) = {"a.md#intro", "b.md#intro"}
       /\ DueKeys(strftime_date(clock) - 1) = {}

---------------------------------------------------------------------------
(* state_manager.py: StateManager.update_random_pick_history.              *)
(*                                                                         *)
(* A run picks up to _NORMAL_RANDOM_COUNT files on a normal round and up   *)
(* to _DISCOVERY_RANDOM_COUNT on a discovery round, fewer when the vault   *)
(* has fewer candidates.  The j-th pick of the n-th recorded run is the    *)
(* path 100 * n + j, so the picks of different runs are told apart.        *)

MaxPickCalls == 4

PickCounts == {0, 1, _NORMAL_RANDOM_COUNT, _DISCOVERY_RANDOM_COUNT}

PickedFiles(n, count) == [j \in 1 .. count |-> 100 * n + j]

update_random_pick_history(history, picked_files) ==
    LET h1 == IF picked_files # <<>>
              THEN Take(picked_files \o history, 3 * Len(picked_files))
              ELSE history
    IN Take(h1, 60)

InitPicks ==
    /\ pick_history = <<>>
    /\ pick_calls = <<>>
    /\ IdleRuns
    /\ IdleScore /\ IdleDisc /\ IdleLevel /\ IdleSel /\ IdleQuiz /\ IdleInterval /\ IdleCalls
    /\ IdleSched /\ IdleJobs /\ IdleRetry /\ IdleRound /\ IdleRead /\ IdleWeights

PicksOthers ==
    <<scoreVars, discVars, levelVars, selVars, quizVars, intervalVars, callVars, schedVars,
      jobVars, retryVars, roundVars, readVars, weightVars>>

UpdateRandomPickHistory(count) ==
    /\ Len(pick_calls) < MaxPickCalls
    /\ LET picked_files == PickedFiles(Len(pick_calls) + 1, count) IN
        /\ pick_history' = update_random_pick_history(pick_history,
                                                             picked_files)
        /\ pick_calls' = <<picked_files>> \o pick_calls
    /\ UNCHANGED <<runVars, PicksOthers>>

NextPicks == \E count \in PickCounts : UpdateRandomPickHistory(count)

SpecPicks == InitPicks /\ [][NextPicks]_vars

RECURSIVE Flatten(_)
Flatten(lists) == IF lists = <<>> THEN <<>> ELSE lists[1] \o Flatten(Tail(lists))

(* The pick lists of the runs that picked anything, newest first. *)
PickingCalls == LET Picked(picked_files) == picked_files # <<>>
                IN SelectSeq(pick_calls, Picked)

(* C24: pick_history is the picks of the three most recent runs     *)
(* that picked anything, newest first and complete, and nothing older;     *)
(* so the latest picks are its prefix; it never holds more than 60 paths;  *)
(* a call with an empty pick list leaves it unchanged.                     *)
C24_LastThreeRuns ==
    /\ pick_history = Flatten(Take(PickingCalls, 3))
    /\ Len(pick_history) <= 60
    /\ update_random_pick_history(pick_history, <<>>) = pick_history

(* What does hold: the latest picks are the prefix of the list, the list   *)
(* is a prefix of all recorded picks, newest first, of at most three times *)
(* the latest run's count and at most 60 paths, and a call with an empty   *)
(* pick list leaves it unchanged.                                          *)
PicksWindowByLatestCount ==
    /\ PickingCalls # <<>> =>
          /\ Take(pick_history, Len(PickingCalls[1])) = PickingCalls[1]
          /\ Len(pick_history) <= 3 * Len(PickingCalls[1])
    /\ pick_history = Take(Flatten(PickingCalls), Len(pick_history))
    /\ Len(pick_history) <= 60
    /\ update_random_pick_history(pick_history, <<>>) = pick_history

---------------------------------------------------------------------------
(* Specification SpecWeights: _calculate_random_weights applied to the     *)
(* empty list and to every pair of candidates whose modification times     *)
(* range from NowDay days ago to the day after `now`, or are unknown.      *)

WeightFile(path, modified_at) ==
    [relative_path |-> path, modified_at |-> modified_at, priority |-> "",
     deadline |-> NoDeadline, unchecked_count |-> 0]

InitWeights ==
    /\ \E now \in NowTicks :
          \/ wt_in = [files |-> <<>>, now |-> now]
          \/ \E m1, m2 \in ModifiedTimes :
                wt_in = [files |-> <<WeightFile(1, m1), WeightFile(2, m2)>>, now |-> now]
    /\ wt_out = NotCalled
    /\ IdleScore /\ IdleDisc /\ IdleLevel /\ IdleSel /\ IdleQuiz /\ IdleInterval /\ IdleCalls
    /\ IdleSched /\ IdleJobs /\ IdleRetry /\ IdleRound /\ IdleRead /\ IdlePicks

WeightsOthers ==
    <<scoreVars, discVars, levelVars, selVars, quizVars, intervalVars, callVars, schedVars,
      jobVars, retryVars, roundVars, readVars, pickVars>>

CalculateRandomWeights ==
    /\ ~wt_out.called
    /\ wt_out' = [called |-> TRUE, ret |-> _calculate_random_weights(wt_in.files, wt_in.now)]
    /\ UNCHANGED <<wt_in, WeightsOthers>>

NextWeights == CalculateRandomWeights

SpecWeights == InitWeights /\ [][NextWeights]_vars

(* d is the number of whole days from modified_at to now (negative for a   *)
(* modification time in the future). *)
WholeDaysSince(modified_at, now, d) ==
    /\ d * TicksPerDay <= now - modified_at
    /\ now - modified_at < (d + 1) * TicksPerDay

(* C25: a candidate modified d whole days ago weighs max(1, d) when        *)
(* d < 30 and 3 * d when d >= 30, one of unknown modification time weighs  *)
(* 15; so every weight is at least 1, every candidate unmodified for 30    *)
(* days or more outweighs every candidate modified within 30 days, and the *)
(* weights of a non-empty list sum to more than zero, which is what keeps  *)
(* the weighted draw from raising ValueError.                              *)
C25_RandomWeights ==
    wt_out.called =>
        LET files == wt_in.files
            weights == wt_out.ret
            Known(i) == files[i].modified_at # NoneTime
            Days(i) == CHOOSE d \in (-2) .. (NowDay + 1) :
                          WholeDaysSince(files[i].modified_at, wt_in.now, d)
        IN /\ Len(weights) = Len(files)
           /\ \A i \in 1 .. Len(files) :
                 /\ ~Known(i) => weights[i] = 15
                 /\ (Known(i) /\ Days(i) < 30) => weights[i] = Max(1, Days(i))
                 /\ (Known(i) /\ Days(i) >= 30) => weights[i] = 3 * Days(i)
                 /\ weights[i] >= 1
           /\ \A i, j \in 1 .. Len(files) :
                 (Known(i) /\ Known(j) /\ Days(i) >= 30 /\ Days(j) < 30)
                    => weights[i] > weights[j]
           /\ files # <<>> => SeqSum(weights) > 0

(* A candidate modified exactly 30 days ago (weight 90) next to one whose  *)
(* modification time lies in the future (weight 1).                        *)
C25_Witness ==
    /\ wt_out.called
    /\ Len(wt_in.files) = 2
    /\ wt_in.now - wt_in.files[1].modified_at = timedelta(30)
    /\ wt_in.files[2].modified_at > wt_in.now
    /\ wt_out.ret = <<90, 1>>

(* A candidate modified 29 whole days ago (weight 29) next to one of       *)
(* unknown modification time (weight 15).                                  *)
C25_JustRecent ==
    /\ wt_out.called
    /\ Len(wt_in.files) = 2
    /\ wt_in.files[1].modified_at # NoneTime
    /\ td_days(wt_in.now - wt_in.files[1].modified_at) = 29
    /\ wt_in.files[2].modified_at = NoneTime
    /\ wt_out.ret = <<29, 15>>

---------------------------------------------------------------------------
(* Specification SpecSchedFair: the Scheduler while it is not stopped,     *)
(* with the scheduler firing every due job, every started handler running  *)
(* on, every callback returning and every lock that stays free being       *)
(* taken.  Cron firings, manual runs and changes of the settings are up to *)
(* the clock and the user.                                                 *)

SchedFairness ==
    /\ \A x \in Features : WF_vars(DeferredFires(x))
    /\ \A t \in PoolThreads : WF_vars(OnTrigger(t))
    /\ \A t \in Threads :
          WF_vars(AcquireLock(t)) /\ WF_vars(SetRunning(t)) /\ WF_vars(CallbackEnds(t))
    /\ \A t \in ManualThreads : WF_vars(ManualNext(t))

SpecSchedFair == InitSched /\ [][NextStarted]_vars /\ SchedFairness

(* The pool threads that execute the callback of feature x. *)
HandlerInCallback(x) ==
    \E t \in PoolThreads : FeatureOf(t) = x /\ th_pc[t] = "callback"

(* C26: a trigger handler of feature x that finds the other feature        *)
(* running does not start x: it adds the deferred job and returns; the     *)
(* deferred job stays scheduled until it fires; and every handler that is  *)
(* at its check while the other feature runs, and every deferred job,      *)
(* leads to the callback of x being executed by a trigger handler, which a *)
(* handler only reaches from a check that found the other feature idle.    *)
C26_DeferredTriggerRuns ==
    /\ [][\A x \in Features :
            (deferred[x] /\ ~deferred'[x]) => th_pc'[DeferredThread(x)] = "check"]_vars
    /\ [][\A t \in PoolThreads :
            (th_pc[t] = "check" /\ _running[Other(FeatureOf(t))] /\ th_pc'[t] # "check")
               => (deferred'[FeatureOf(t)] /\ th_pc'[t] = "idle")]_vars
    /\ [][\A t \in PoolThreads :
            (th_pc[t] = "check" /\ th_pc'[t] = "lock")
               => ~_running[Other(FeatureOf(t))]]_vars
    /\ \A t \in PoolThreads :
          (th_pc[t] = "check" /\ _running[Other(FeatureOf(t))])
             ~> HandlerInCallback(FeatureOf(t))
    /\ \A x \in Features : deferred[x] ~> HandlerInCallback(x)

(* What holds of the deferral: the handler that finds the other feature    *)
(* running adds the deferred job and returns, and a handler goes on to the *)
(* wrapper only from a check that found the other feature idle.            *)
DeferredInsteadOfRun ==
    /\ [][\A t \in PoolThreads :
            (th_pc[t] = "check" /\ _running[Other(FeatureOf(t))] /\ th_pc'[t] # "check")
               => (deferred'[FeatureOf(t)] /\ th_pc'[t] = "idle")]_vars
    /\ [][\A t \in PoolThreads :
            (th_pc[t] = "check" /\ th_pc'[t] = "lock")
               => ~_running[Other(FeatureOf(t))]]_vars

(* The trigger of a fired while b was running: the handler has returned,   *)
(* job_a_deferred is scheduled and b's callback is still executing.        *)
C26_Witness ==
    /\ deferred["a"]
    /\ th_pc["trigger_a"] = "idle"
    /\ _running["b"]
    /\ InCallback("b") # {}

---------------------------------------------------------------------------
(* Specification SpecRuns: job runs over one vault.  A run (_run_job_a or  *)
(* _run_job_b of main.py) calls select_files with the stored               *)
(* random_pick_history, waits for the LLM and, when it completes, records  *)
(* its random picks with update_random_pick_history, which reads the       *)
(* stored history, calls len() and stores the new history, without a lock: *)
(* the other run can take its steps between the read and the store.  A run *)
(* that gets no briefing returns without recording.  The runs of one feature follow     *)
(* each other (the feature's lock); a run of the other feature can start   *)
(* and end in the meantime.  run_log lists the runs in the order of their  *)
(* select_files calls; pick_calls lists the recorded picks, latest first.  *)

MaxRuns == 2

get_random_picked_paths(result) ==
    [i \in 1 .. Len(result.random_files) |-> result.random_files[i].relative_path]

(* The rounds of a vault: the small vaults see every kind of round, the    *)
(* large ones the normal rounds (15 draws out of 17 candidates are too     *)
(* many to enumerate).                                                     *)
RunRounds(files) ==
    IF Len(files) <= MaxSmall
    THEN Rounds
    ELSE {r \in Rounds : ~is_discovery_round(r[1], r[2])}

(* The history is empty at first; the vaults hold more files than          *)
(* max_files, so that random picks are made: a small vault of alternating  *)
(* profiles with room for the 5 top files of a discovery round and one     *)
(* more, and a vault of _DEFAULT_MAX_FILES + 1 files.                      *)
InitRuns ==
    /\ \E files \in {Vault(MaxSmall, [i \in 1 .. PatternLen |-> 1 + (i % 2)]),
                      LargeVault(_DEFAULT_MAX_FILES + 1)} :
         \E m \in IF Len(files) <= MaxSmall
                   THEN {MaxSmall - 2}
                   ELSE (_NORMAL_TOP_COUNT + 1) .. _DEFAULT_MAX_FILES :
            run_cfg = [files |-> files, max_files |-> m, now |-> SelNow]
    /\ run_sel = [x \in Features |-> NotCalled]
    /\ run_log = <<>>
    /\ pick_history = <<>>
    /\ pick_calls = <<>>
    /\ IdleScore /\ IdleDisc /\ IdleLevel /\ IdleSel /\ IdleQuiz /\ IdleInterval /\ IdleCalls
    /\ IdleSched /\ IdleJobs /\ IdleRetry /\ IdleRound /\ IdleRead /\ IdleWeights

RunsOthers ==
    <<scoreVars, discVars, levelVars, selVars, quizVars, intervalVars, callVars, schedVars,
      jobVars, retryVars, roundVars, readVars, weightVars>>

(* Step 3 of a run of feature x: select_files with the history as stored   *)
(* at this moment.                                                         *)
RunSelects(x, round) ==
    /\ run_sel[x] = NotCalled
    /\ Len(run_log) < MaxRuns
    /\ LET in == SelectInput(run_cfg.files, round, run_cfg.max_files, pick_history)
       IN \E draw \in RandomDraws(in.files, in.run_count, in.discovery_interval,
                                  in.max_files, in.random_pick_history, run_cfg.now) :
             LET selection == select_files(in.files, in.run_count, in.discovery_interval,
                                           in.max_files, in.random_pick_history,
                                           run_cfg.now, draw)
             IN run_log' = Append(run_log, [feature |-> x, in |-> in,
                                            selection |-> selection,
                                            completed |-> FALSE])
    /\ run_sel' = [run_sel EXCEPT ![x] = [called |-> TRUE, run |-> Len(run_log) + 1,
                                          pc |-> "llm", history |-> <<>>]]
    /\ UNCHANGED <<pick_history, pick_calls, run_cfg, RunsOthers>>

(* The picks of the run of feature x. *)
RandomPicked(x) == get_random_picked_paths(run_log[run_sel[x].run].selection)

(* The run has recorded its picks, or had none to record. *)
RunCompleted(x) ==
    /\ pick_calls' = <<RandomPicked(x)>> \o pick_calls
    /\ run_log' = [run_log EXCEPT ![run_sel[x].run].completed = TRUE]
    /\ run_sel' = [run_sel EXCEPT ![x] = NotCalled]

(* Step 9 of the run: the briefing was written.  Without random picks      *)
(* update_random_pick_history is not called; with picks it first reads the *)
(* stored history.                                                         *)
RunReadsHistory(x) ==
    /\ run_sel[x].called
    /\ run_sel[x].pc = "llm"
    /\ IF RandomPicked(x) = <<>>
       THEN RunCompleted(x)
       ELSE /\ run_sel' = [run_sel EXCEPT ![x].pc = "store", ![x].history = pick_history]
            /\ UNCHANGED <<pick_calls, run_log>>
    /\ UNCHANGED <<pick_history, run_cfg, RunsOthers>>

(* update_random_pick_history stores the picks followed by the history it  *)
(* read, cut to three times the number of picks, and at once cuts what it  *)
(* stored to 60 entries.                                                   *)
RunStoresPicks(x) ==
    /\ run_sel[x].called
    /\ run_sel[x].pc = "store"
    /\ pick_history' = update_random_pick_history(run_sel[x].history, RandomPicked(x))
    /\ RunCompleted(x)
    /\ UNCHANGED <<run_cfg, RunsOthers>>

(* The run returns before step 9: the briefing is empty, or an exception   *)
(* was raised and caught.                                                  *)
RunReturnsEarly(x) ==
    /\ run_sel[x].called
    /\ run_sel[x].pc = "llm"
    /\ run_sel' = [run_sel EXCEPT ![x] = NotCalled]
    /\ UNCHANGED <<pick_history, pick_calls, run_cfg, run_log, RunsOthers>>

NextRuns ==
    \/ \E x \in Features : \E round \in RunRounds(run_cfg.files) : RunSelects(x, round)
    \/ \E x \in Features : RunReadsHistory(x)
    \/ \E x \in Features : RunStoresPicks(x)
    \/ \E x \in Features : RunReturnsEarly(x)

SpecRuns == InitRuns /\ [][NextRuns]_vars

(* The random picks of a run of run_log, and whether its select_files call *)
(* found at least random_count candidates outside the top files and        *)
(* outside the history it was given.                                       *)
RunPicks(run) == PathSet(run.selection.random_files)

RunRandomCount(in) ==
    LET discovery == /\ in.discovery_interval > 0
                     /\ in.run_count > 0
                     /\ in.run_count % in.discovery_interval = 0
        top_count == Min(IF discovery THEN 5 ELSE 17, in.max_files)
    IN Min(IF discovery THEN 15 ELSE 3, in.max_files - top_count)

EnoughOutsideHistory(run) ==
    LET history == {run.in.random_pick_history[i] :
                      i \in 1 .. Len(run.in.random_pick_history)}
        nonTop == PathSet(run.in.files) \ PathSet(run.selection.top_files)
    IN /\ Len(run.in.files) > run.in.max_files
       /\ Cardinality(nonTop \ history) >= RunRandomCount(run.in)

(* C27: a path that a completed run returned as a random pick is not a     *)
(* random pick of the next run, of either feature, when at least           *)
(* random_count of the next run's candidates outside top_files are outside *)
(* random_pick_history.                                                    *)
C27_NoRepeatInNextRun ==
    \A n \in 1 .. Len(run_log) - 1 :
        (run_log[n].completed /\ EnoughOutsideHistory(run_log[n + 1])) =>
            RunPicks(run_log[n + 1]) \cap RunPicks(run_log[n]) = {}

(* What holds: the picks that a run had recorded when the next run called  *)
(* select_files are not picked by that run.                                *)
NoRepeatOfRecordedPicks ==
    \A n \in 1 .. Len(run_log) - 1 :
        LET picked == get_random_picked_paths(run_log[n].selection)
            history == run_log[n + 1].in.random_pick_history
        IN (/\ picked # <<>>
            /\ Take(history, Len(picked)) = picked
            /\ EnoughOutsideHistory(run_log[n + 1])) =>
               RunPicks(run_log[n + 1]) \cap RunPicks(run_log[n]) = {}

(* A run recorded two picks and the run after it picked two other files.   *)
C27_Witness ==
    /\ Len(run_log) = 2
    /\ run_log[1].completed
    /\ Len(run_log[1].selection.random_files) = 2
    /\ Len(run_log[2].selection.random_files) = 2
    /\ run_log[2].in.random_pick_history = get_random_picked_paths(run_log[1].selection)
    /\ EnoughOutsideHistory(run_log[2])

(* Too few candidates outside the history: a file of the previous run was  *)
(* picked again.                                                           *)
C27_RepeatReached ==
    /\ Len(run_log) = 2
    /\ run_log[1].completed
    /\ run_log[2].in.random_pick_history = get_random_picked_paths(run_log[1].selection)
    /\ ~EnoughOutsideHistory(run_log[2])
    /\ RunPicks(run_log[2]) \cap RunPicks(run_log[1]) # {}

(* The two runs recorded their picks at the same time: each read the empty *)
(* history before the other stored, and the history holds the picks of one *)
(* of them only.                                                           *)
C27_PicksOfOneRunLost ==
    /\ Len(run_log) = 2
    /\ run_log[1].completed /\ run_log[2].completed
    /\ Len(pick_calls) = 2
    /\ pick_calls[1] # <<>> /\ pick_calls[2] # <<>>
    /\ pick_history \in {pick_calls[1], pick_calls[2]}

(* The second run called select_files before the first recorded its picks: *)
(* both were given the empty history, both completed, and they share a     *)
(* pick.                                                                   *)
C27_OverlappingRunsRepeat ==
    /\ Len(run_log) = 2
    /\ run_log[1].completed /\ run_log[2].completed
    /\ run_log[1].feature # run_log[2].feature
    /\ run_log[2].in.random_pick_history = <<>>
    /\ RunPicks(run_log[2]) \cap RunPicks(run_log[1]) # {}

---------------------------------------------------------------------------
(* Specification SpecSubmit: the scoring threads and the job B runs as in  *)
(* SpecQuiz, under the default interval table, with every way the scoring  *)
(* request can end and briefings that hold one quiz, or two quizzes on     *)
(* different topics.                                                       *)

MaxSubmitEvents == 2      \* results recorded over all topics

InitSubmit ==
    /\ InitQuiz
    /\ sr_config.intervals = _DEFAULT_INTERVALS

NextSubmit ==
    \/ MaySubmit(MaxSubmitEvents)
          /\ \E w \in Windows, quiz \in IssuedQuizzes : SubmitAnswer(w, quiz)
    \/ \E w \in Windows, reply \in ScoringReplies : ScoreTopicRaises(w, reply)
    \/ \E w \in Windows, reply \in ScoringReplies : UpdateAfterScoringCall(w, reply)
    \/ \E w \in Windows : RemovePendingQuiz(w)
    \/ \E w \in Windows : UpdateQuizHistory(w)
    \/ \E w \in Windows : StoreQuizHistoryEntry(w)
    \/ MayRun(MaxSubmitEvents) /\ JobBStarts
    \/ AutoIncorrect
    \/ AutoIncorrectStores
    \/ \E written \in BOOLEAN : AppendQuizResult(written)
    \/ ClearPendingQuizzes
    \/ \E tk \in {t \in TopicKeyLists :
                    \A i, j \in 1 .. Len(t) : t[i].topic_key = t[j].topic_key => i = j} :
          JobBGenerates(tk)
    \/ JobBFails

SpecSubmit == InitSubmit /\ [][NextSubmit]_vars

(* C28: a scoring call whose reply is an exception, a timeout or text      *)
(* without JSON raises, and neither its start nor its end changes          *)
(* quiz_history or pending_quizzes: no result, no level change, and the    *)
(* quiz is as pending as it was; only a call whose reply is a JSON object  *)
(* goes on to the state.                                                   *)
C28_FailedScoringKeepsState ==
    [][\A w \in Windows :
         /\ (sub_pc[w] = "idle" /\ sub_pc'[w] = "scoring") =>
                UNCHANGED <<quiz_history, pending_quizzes>>
         /\ (sub_pc[w] = "scoring" /\ sub_pc'[w] = "idle") =>
                /\ sub_out'.called
                /\ sub_out'.reply \in {"raises", "timeout", "text"}
                /\ UNCHANGED <<quiz_history, pending_quizzes>>
         /\ (sub_pc[w] = "scoring" /\ sub_pc'[w] = "read") =>
                sub_call'[w].reply = "json"]_vars

(* A failed call has ended, its quiz is still pending and the answer has   *)
(* been submitted again.                                                   *)
C28_Witness ==
    /\ sub_out.called
    /\ sub_out.reply = "text"
    /\ \E w \in Windows :
          /\ sub_pc[w] = "scoring"
          /\ \E i \in 1 .. Len(pending_quizzes) :
                /\ pending_quizzes[i].topic_key = sub_call[w].topic_key
                /\ pending_quizzes[i].briefing_file = sub_call[w].briefing_file

(* The scoring call of the quiz has taken a quiz off the pending list and  *)
(* not yet recorded its result.                                            *)
BeingRecorded(e) ==
    \E w \in Windows :
        /\ sub_pc[w] \in {"removed", "storing"}
        /\ sub_call[w].briefing_file = e.briefing_file
        /\ sub_call[w].topic_key = e.topic_key

(* C29: every quiz issued is resolved exactly once, by the scored answer   *)
(* or by the automatic-incorrect pass and never by both, and is not taken  *)
(* off the pending list without a result.                                  *)
C29_ResolvedExactlyOnce ==
    \A e \in quiz_log :
        /\ e.scored + e.auto <= 1
        /\ \/ IsPending(e.briefing_file, e.topic_key)
           \/ e.scored + e.auto >= 1
           \/ BeingRecorded(e)

(* A quiz with both a scored and an automatic result. *)
C29_ResolvedTwice ==
    \E e \in quiz_log : e.scored >= 1 /\ e.auto >= 1

(* remove_pending_quiz walked past a quiz while another call popped an     *)
(* earlier one: it returned None and the quiz of its topic is still        *)
(* pending.                                                                *)
C29_SkippedInWalk ==
    \E w \in Windows :
        /\ sub_pc[w] = "removed"
        /\ sub_call[w].pattern = "learning"
        /\ \E i \in 1 .. Len(pending_quizzes) :
              /\ pending_quizzes[i].topic_key = sub_call[w].topic_key
              /\ pending_quizzes[i].briefing_file = sub_call[w].briefing_file

(* A quiz taken off the pending list by the answer to an older quiz on the *)
(* same topic: it has no result.                                           *)
C29_DroppedWithoutResult ==
    \E e \in quiz_log :
        /\ ~IsPending(e.briefing_file, e.topic_key)
        /\ e.scored + e.auto = 0
        /\ ~BeingRecorded(e)

---------------------------------------------------------------------------
(* Specification SpecCap: select_files on vaults around max_files, with    *)
(* max_files up to and above the 20 files of a full selection.             *)

InitCap ==
    /\ \/ \E n \in 0 .. MaxSmall, pat \in Patterns, m \in SmallMaxFiles, r \in Rounds :
            \E h \in Histories(n, 1) :
                sel_in = SelectInput(Vault(n, pat), r, m, h)
       \/ \E n \in (_DEFAULT_MAX_FILES + 1) .. (_DEFAULT_MAX_FILES + MaxOver) :
            \E m \in _DEFAULT_MAX_FILES .. n, h \in Histories(n, 1) :
                \E r \in {q \in Rounds : ~is_discovery_round(q[1], q[2])} :
                    sel_in = SelectInput(LargeVault(n), r, m, h)
    /\ sel_out = NotCalled
    /\ IdleScore /\ IdleDisc /\ IdleLevel /\ IdleQuiz /\ IdleAux

NextCap == SelectFiles

SpecCap == InitCap /\ [][NextCap]_vars

(* C30: for more candidates than max_files >= 1, of distinct paths,        *)
(* select_files returns exactly min(17, max_files) top files (min(5,       *)
(* max_files) on a discovery round) and exactly the clamped random_count   *)
(* random files, min(max_files, 20) files in all; a vault of exactly       *)
(* max_files notes is returned whole, so with max_files > 20 the larger    *)
(* vault yields 20 files and the one of max_files notes max_files.         *)
C30_ExactCounts ==
    /\ (sel_out.called /\ Len(sel_in.files) > sel_in.max_files
          /\ Distinct(sel_in.files) /\ sel_in.max_files >= 1) =>
            /\ Len(SelRet.top_files) = ClaimTopCount
            /\ Len(SelRet.random_files) = ClaimRandomCount
            /\ Len(SelRet.selected_files) =
                   (IF sel_in.max_files <= 20 THEN sel_in.max_files ELSE 20)
    /\ (sel_out.called /\ Len(sel_in.files) = sel_in.max_files) =>
            Len(SelRet.selected_files) = sel_in.max_files

(* max_files = 21 and 22 notes: 17 top files and 3 random ones, 20 of the  *)
(* 21 allowed.                                                             *)
C30_Witness ==
    /\ sel_out.called
    /\ sel_in.max_files = _DEFAULT_MAX_FILES + 1
    /\ Len(sel_in.files) = _DEFAULT_MAX_FILES + 2
    /\ Len(SelRet.top_files) = 17
    /\ Len(SelRet.random_files) = 3
    /\ Len(SelRet.selected_files) = 20

(* max_files = 21 and 21 notes: all 21 are selected. *)
C30_WholeVault ==
    /\ sel_out.called
    /\ sel_in.max_files = _DEFAULT_MAX_FILES + 1
    /\ Len(sel_in.files) = _DEFAULT_MAX_FILES + 1
    /\ Len(SelRet.selected_files) = _DEFAULT_MAX_FILES + 1

(* A discovery round with more candidates than max_files: 5 top files and  *)
(* the random picks that fit.                                              *)
C30_DiscoveryReached ==
    /\ sel_out.called
    /\ SelRet.is_discovery
    /\ Len(sel_in.files) > sel_in.max_files
    /\ Len(SelRet.top_files) = 5
    /\ Len(SelRet.random_files) = sel_in.max_files - 5
    /\ Len(SelRet.random_files) >= 2

=============================================================================
